---- MODULE Spec2Model ----
(***************************************************************************)
(* Verification model of the bulk write engine, its sequence allocator and *)
(* the connection pools of PythonProjectGenerics.                          *)
(*                                                                         *)
(* The module holds several specifications over one set of variables:      *)
(*   SpecAlloc   concurrent callers of _allocate_custom_sequence_block     *)
(*   SpecSql     _build_update_sql / _reorder_tuple_for_update             *)
(*   SpecWriter  OracleDBWriter insert_data / update_data / dispatch       *)
(*   SpecPool    PostgreAuthPool under concurrent getconn / putconn        *)
(*   SpecMerge   PostgresDBWriter.write_as_dataframe, the MERGE upsert     *)
(* A specification leaves the variables of the other parts at Idle.        *)
(***************************************************************************)
EXTENDS Integers, Sequences, FiniteSets, TLC

VARIABLES
    \* ---- SEQUENCES table and the allocator's callers (oracle_writer.py)
    seqTable,     \* ENTITYNAME -> its row: Num(LAST_THRESHOLD), NULL or NoRow
    seqInit,      \* the table as it was before any allocation (never changes)
    rowLock,      \* ENTITYNAME -> the caller holding the FOR UPDATE lock, or 0
    apc,          \* caller -> position in _allocate_custom_sequence_block
    aent,         \* caller -> entity_name argument
    ablock,       \* caller -> block_size argument
    aread,        \* caller -> row[0] as fetched by the locking SELECT
    aold,         \* caller -> old_threshold
    apending,     \* caller -> new_end written by the UPDATE, not yet committed
    aresult,      \* caller -> allocated_ids returned
    athr,         \* caller -> LAST_THRESHOLD stored by the caller's commit
    \* ---- _build_update_sql / _reorder_tuple_for_update applied to inputs
    qpc,          \* "start", "built", "done" or "ValueError"
    qcols,        \* all_cols: the DataFrame's column names, in order
    qpk,          \* pk_cols
    qrows,        \* data_tuples: the row tuples in column order
    qsql,         \* the UPDATE statement built
    qshifted,     \* the reordered tuples
    \* ---- one call of the Oracle writer (oracle_writer.py, writer_service.py)
    w,            \* the writer and its call:
                  \*   pc     position in the call; "returned" / "raised" at its end
                  \*   entry  the method called
                  \*   keys   names of the keyword arguments passed
                  \*   args   mode, pk_col, sequence_name, chunk_size, pk_cols
                  \*   cols   df.columns;  rows  df rows as tuples in column order
                  \*   df0    the DataFrame as passed: [cols, rows]
                  \*   body   "insert_data" / "update_data" once that body runs
                  \*   sql    the statement built;  start  start_idx
                  \*   ids    seq_values returned by the allocator
                  \*   pool   self._session_pool: "None" or "pool"
                  \*   busy   sessions of the pool that are checked out
                  \*   conn   TRUE while the call holds a connection
                  \*   err    the error raised: [type, at]
    wtxn,         \* the table as the connection's open transaction sees it
    target,       \* the committed rows of self.table
    target0,      \* the table before the call
    wlog,         \* statements, commits and rollbacks issued on the table
    \* ---- a PostgreAuthPool shared by threads (postgre_auth_pool.py)
    pargs,        \* the constructor's arguments: minconn, maxconn, token_ttl, and
                  \*   conninfo: whether self.conninfo resolves ("mapping") or the
                  \*   attribute is missing ("absent")
    pstate,       \* "new" before __init__, then "ready", or "failed" if it raised
    closed,       \* self.closed
    _pool,        \* self._pool: the idle connections
    _used,        \* self._used: key -> connection
    _rused,       \* self._rused: connection -> key
    _keys,        \* self._keys
    _connection_created_at,   \* connection -> time.time() at its creation
    copen,        \* connection -> TRUE until it is closed; connections are 1..Len
    clock,        \* time.time()
    th,           \* thread -> its call of the pool:
                  \*   pc     position in getconn; "holding" once it has returned
                  \*   key    the key _getconn works with
                  \*   taken  the connection super().getconn() returned
                  \*   conn   the connection the thread ends up with
                  \*   now    the time read at line 87
                  \*   replaced  TRUE when the taken connection was found stale
                  \*   err    the error the last call raised
    \* ---- an OracleKerberosPool shared by threads (oracle_kerberose_pool.py)
    ostate,       \* Idle when no such pool is modelled, else "ready"
    osess,        \* the sessions acquire() has handed out, 1..Len:
                  \*   open  FALSE once closed, released or lost
                  \*   out   TRUE while the SessionPool counts it as busy
    oclosed,      \* TRUE once SessionPool.close() has succeeded
    ocreated,     \* self._connection_created_at of the Oracle pool
    oth,          \* thread -> [pc, session, err]: its use of the Oracle pool
    \* ---- calls of PostgresDBWriter.write_as_dataframe (postgres_writer.py)
    mw,           \* the writer and its call:
                  \*   pc     position in the call; "returned" / "raised" at its end
                  \*   keys   names of the keyword arguments passed
                  \*   merge_on, chunk_size   the keyword arguments' values
                  \*   cols   df.columns;  rows  df rows as tuples in column order
                  \*   start  the chunk loop's start
                  \*   iam_auth  extras['iam_auth'];  pool  self._connection_pool
                  \*   conn   TRUE while the call holds a connection
                  \*   round  1 for the first call, 2 once the same call is repeated
                  \*   err    the error raised: [type, at]
    mtxn,         \* the table as the connection's open transaction sees it
    mtarget,      \* the committed rows of self.table
    mtarget0,     \* the table before the current call
    mlog          \* MERGE statements, commits and rollbacks of the current call

allocVars == <<seqTable, seqInit, rowLock, apc, aent, ablock, aread, aold,
               apending, aresult, athr>>

sqlVars == <<qpc, qcols, qpk, qrows, qsql, qshifted>>

writerVars == <<w, wtxn, target, target0, wlog>>

poolVars == <<pargs, pstate, closed, _pool, _used, _rused, _keys,
              _connection_created_at, copen, clock, th>>

oraVars == <<ostate, osess, oclosed, ocreated, oth>>

mergeVars == <<mw, mtxn, mtarget, mtarget0, mlog>>

vars == <<allocVars, sqlVars, writerVars, poolVars, oraVars, mergeVars>>

allocCallerVars == <<rowLock, apc, aent, ablock, aread, aold, apending, aresult, athr>>
notAlloc == <<sqlVars, writerVars, poolVars, oraVars, mergeVars>>
notWriter == <<seqInit, allocCallerVars, sqlVars, poolVars, oraVars, mergeVars>>
notSql == <<allocVars, writerVars, poolVars, oraVars, mergeVars>>
notPool == <<allocVars, sqlVars, writerVars, oraVars, mergeVars>>
notOra == <<allocVars, sqlVars, writerVars, poolVars, mergeVars>>
notMerge == <<allocVars, sqlVars, writerVars, poolVars, oraVars>>

Idle == "idle"

\* the LAST_THRESHOLD read for an entity: no row, a row holding NULL, a number
NoRow == [exists |-> FALSE, null |-> FALSE, val |-> 0]
NULL == [exists |-> TRUE, null |-> TRUE, val |-> 0]
Num(v) == [exists |-> TRUE, null |-> FALSE, val |-> v]

(***************************************************************************)
(* Bounds of the model.                                                    *)
(***************************************************************************)
MaxProcs == 2       \* concurrent callers of the allocator
MaxBlock == 3       \* largest block_size requested
MaxThreads == 2     \* threads sharing one PostgreAuthPool

Procs == 1..MaxProcs
Threads == 1..MaxThreads
Entities == {"ORDERS", "ITEMS", "GHOST"}

Range(f) == {f[i] : i \in DOMAIN f}

(***************************************************************************)
(* _allocate_custom_sequence_block, oracle_writer.py 357-402.              *)
(***************************************************************************)
\* the locking read returns only once no other transaction holds the row
RowLockIgnored(e) == TRUE
NoRowLocked(e) == \A x \in DOMAIN rowLock : rowLock[x] = 0
RowLockFree(e) == rowLock[e] = 0

\* old_threshold = row[0]; if old_threshold is None: old_threshold = 0
NullAsOne(row) == IF row.null THEN 1 ELSE row.val
OldThreshold(row) == IF row.null THEN 0 ELSE row.val

NewStart(old) == old + 1

NewEndOffByOne(old, b) == old + b + 1
NewEnd(old, b) == old + b

\* list(range(new_start, new_end + 1))
PyRange(lo, hi) == IF hi > lo THEN [i \in 1..(hi - lo) |-> lo + i - 1] ELSE <<>>
AllocatedIdsFromOld(newStart, newEnd) == PyRange(newStart - 1, newEnd)
AllocatedIds(newStart, newEnd) == PyRange(newStart, newEnd + 1)

\* a caller invokes the allocator with its own cursor
AllocCall(p, e, b) ==
    /\ apc[p] = Idle
    /\ apc' = [apc EXCEPT ![p] = "select"]
    /\ aent' = [aent EXCEPT ![p] = e]
    /\ ablock' = [ablock EXCEPT ![p] = b]
    /\ UNCHANGED <<seqTable, seqInit, rowLock, aread, aold, apending, aresult, athr>>
    /\ UNCHANGED notAlloc

\* SELECT ... FOR UPDATE finds no row: fetchone() is None, ValueError, no lock
AllocNoRow(p) ==
    /\ apc[p] = "select"
    /\ seqTable[aent[p]] = NoRow
    /\ apc' = [apc EXCEPT ![p] = "ValueError"]
    /\ UNCHANGED <<seqTable, seqInit, rowLock, aent, ablock, aread, aold,
                   apending, aresult, athr>>
    /\ UNCHANGED notAlloc

\* SELECT ... FOR UPDATE locks the row and reads it; old_threshold is set
AllocSelect(p) ==
    /\ apc[p] = "select"
    /\ seqTable[aent[p]] # NoRow
    /\ RowLockFree(aent[p])
    /\ rowLock' = [rowLock EXCEPT ![aent[p]] = p]
    /\ aread' = [aread EXCEPT ![p] = seqTable[aent[p]]]
    /\ aold' = [aold EXCEPT ![p] = OldThreshold(seqTable[aent[p]])]
    /\ apc' = [apc EXCEPT ![p] = "update"]
    /\ UNCHANGED <<seqTable, seqInit, aent, ablock, apending, aresult, athr>>
    /\ UNCHANGED notAlloc

\* UPDATE SEQUENCES SET LAST_THRESHOLD = :new_thr (pending in the transaction)
AllocUpdate(p) ==
    /\ apc[p] = "update"
    /\ apending' = [apending EXCEPT ![p] = NewEnd(aold[p], ablock[p])]
    /\ apc' = [apc EXCEPT ![p] = "commit"]
    /\ UNCHANGED <<seqTable, seqInit, rowLock, aent, ablock, aread, aold, aresult, athr>>
    /\ UNCHANGED notAlloc

\* cursor.connection.commit() stores the threshold and unlocks the row;
\* the ids are built and returned
AllocCommit(p) ==
    /\ apc[p] = "commit"
    /\ seqTable' = [seqTable EXCEPT ![aent[p]] = Num(apending[p])]
    /\ rowLock' = [rowLock EXCEPT ![aent[p]] = IF @ = p THEN 0 ELSE @]
    /\ athr' = [athr EXCEPT ![p] = apending[p]]
    /\ aresult' = [aresult EXCEPT ![p] =
                     AllocatedIds(NewStart(aold[p]), apending[p])]
    /\ apc' = [apc EXCEPT ![p] = "returned"]
    /\ UNCHANGED <<seqInit, aent, ablock, aread, aold, apending>>
    /\ UNCHANGED notAlloc

\* cursor.execute(update_sql, ...) raises: the error leaves the allocator with
\* the transaction of the locking read still open
AllocUpdateFails(p) ==
    /\ apc[p] = "update"
    /\ apc' = [apc EXCEPT ![p] = "finally"]
    /\ UNCHANGED <<seqTable, seqInit, rowLock, aent, ablock, aread, aold,
                   apending, aresult, athr>>
    /\ UNCHANGED notAlloc

\* cursor.connection.commit() raises: nothing is stored
AllocCommitFails(p) ==
    /\ apc[p] = "commit"
    /\ apc' = [apc EXCEPT ![p] = "finally"]
    /\ UNCHANGED <<seqTable, seqInit, rowLock, aent, ablock, aread, aold,
                   apending, aresult, athr>>
    /\ UNCHANGED notAlloc

\* the finally of _fill_df_pk_with_sequence, 353-355: putconn(conn) releases
\* the session, and a session released with a transaction open is rolled
\* back, which unlocks the row
AllocPutconnKeepsLock(p) ==
    /\ apc[p] = "finally"
    /\ apc' = [apc EXCEPT ![p] = "DatabaseError"]
    /\ UNCHANGED <<seqTable, seqInit, rowLock, aent, ablock, aread, aold,
                   apending, aresult, athr>>
    /\ UNCHANGED notAlloc
AllocPutconn(p) ==
    /\ apc[p] = "finally"
    /\ rowLock' = [rowLock EXCEPT ![aent[p]] = IF @ = p THEN 0 ELSE @]
    /\ apending' = [apending EXCEPT ![p] = 0]
    /\ apc' = [apc EXCEPT ![p] = "DatabaseError"]
    /\ UNCHANGED <<seqTable, seqInit, aent, ablock, aread, aold, aresult, athr>>
    /\ UNCHANGED notAlloc

\* the allocator's variables when no concurrent caller is modelled
AllocCallersIdle ==
    /\ rowLock = [e \in Entities |-> 0]
    /\ apc = [p \in Procs |-> Idle]
    /\ aent = [p \in Procs |-> "ORDERS"]
    /\ ablock = [p \in Procs |-> 0]
    /\ aread = [p \in Procs |-> NULL]
    /\ aold = [p \in Procs |-> 0]
    /\ apending = [p \in Procs |-> 0]
    /\ aresult = [p \in Procs |-> <<>>]
    /\ athr = [p \in Procs |-> 0]

AllocIdle ==
    /\ seqTable = [e \in Entities |-> NoRow]
    /\ seqInit = seqTable
    /\ AllocCallersIdle

SqlIdle ==
    /\ qpc = Idle
    /\ qcols = <<>>
    /\ qpk = <<>>
    /\ qrows = <<>>
    /\ qsql = [set |-> <<>>, where |-> <<>>]
    /\ qshifted = <<>>

NoError == [type |-> "none", at |-> "none"]
NoArgs == [mode |-> "None", pk_col |-> "None", sequence_name |-> "None",
           chunk_size |-> 0, pk_cols |-> <<>>]

NoSql == [kind |-> "none", set |-> <<>>, where |-> <<>>]

WriterIdle ==
    /\ w = [pc |-> Idle, entry |-> "none", keys |-> {}, args |-> NoArgs,
            cols |-> <<>>, rows |-> <<>>, df0 |-> [cols |-> <<>>, rows |-> <<>>],
            body |-> "none", sql |-> NoSql, start |-> 0, ids |-> <<>>,
            pool |-> "None", busy |-> 0, conn |-> FALSE, err |-> NoError]
    /\ wtxn = <<>>
    /\ target = <<>>
    /\ target0 = <<>>
    /\ wlog = <<>>

NoMergeCall == [pc |-> Idle, keys |-> {}, merge_on |-> <<>>, chunk_size |-> 0,
                cols |-> <<>>, rows |-> <<>>, start |-> 0, iam_auth |-> FALSE,
                pool |-> "None", conn |-> FALSE, busy |-> 0, closed |-> FALSE,
                round |-> 1, err |-> NoError]

MergeIdle ==
    /\ mw = NoMergeCall
    /\ mtxn = <<>>
    /\ mtarget = <<>>
    /\ mtarget0 = <<>>
    /\ mlog = <<>>

\* a thread that is not inside a call of the pool
ThreadIdle == [pc |-> Idle, key |-> 0, taken |-> 0, conn |-> 0, now |-> 0,
               replaced |-> FALSE, err |-> "none"]

OraThreadIdle == [pc |-> Idle, session |-> 0, err |-> "none"]

OraIdle ==
    /\ ostate = Idle
    /\ osess = <<>>
    /\ oclosed = FALSE
    /\ ocreated = <<>>
    /\ oth = [t \in Threads |-> OraThreadIdle]

PoolIdle ==
    /\ OraIdle
    /\ pargs = [minconn |-> 0, maxconn |-> 0, token_ttl |-> 0, conninfo |-> "absent"]
    /\ pstate = Idle
    /\ closed = FALSE
    /\ _pool = <<>>
    /\ _used = <<>>
    /\ _rused = <<>>
    /\ _keys = 0
    /\ _connection_created_at = <<>>
    /\ copen = <<>>
    /\ clock = 0
    /\ th = [t \in Threads |-> ThreadIdle]

AllocInit ==
    /\ SqlIdle
    /\ WriterIdle
    /\ PoolIdle
    /\ MergeIdle
    /\ seqTable \in {[e \in Entities |->
                        IF e = "ORDERS" THEN Num(t)
                        ELSE IF e = "ITEMS" THEN NULL ELSE NoRow] : t \in {0, 10}}
    /\ seqInit = seqTable
    /\ rowLock = [e \in Entities |-> 0]
    /\ apc = [p \in Procs |-> Idle]
    /\ aent = [p \in Procs |-> "ORDERS"]
    /\ ablock = [p \in Procs |-> 0]
    /\ aread = [p \in Procs |-> NULL]
    /\ aold = [p \in Procs |-> 0]
    /\ apending = [p \in Procs |-> 0]
    /\ aresult = [p \in Procs |-> <<>>]
    /\ athr = [p \in Procs |-> 0]

AllocNext ==
    \/ \E p \in Procs, e \in Entities, b \in 0..MaxBlock : AllocCall(p, e, b)
    \/ \E p \in Procs : AllocNoRow(p)
    \/ \E p \in Procs : AllocSelect(p)
    \/ \E p \in Procs : AllocUpdate(p)
    \/ \E p \in Procs : AllocCommit(p)
    \/ \E p \in Procs : AllocUpdateFails(p)
    \/ \E p \in Procs : AllocCommitFails(p)
    \/ \E p \in Procs : AllocPutconn(p)

SpecAlloc == AllocInit /\ [][AllocNext]_vars

\* a caller inside the allocator goes on running, and the database grants a
\* row lock that stays free to a caller waiting for it
AllocStep(p) ==
    \/ AllocNoRow(p) \/ AllocSelect(p) \/ AllocUpdate(p) \/ AllocCommit(p)
    \/ AllocUpdateFails(p) \/ AllocCommitFails(p) \/ AllocPutconn(p)

\* the callers of the liveness specification ask for one id each
AllocNextLive ==
    \/ \E p \in Procs, e \in Entities : AllocCall(p, e, 1)
    \/ \E p \in Procs : AllocStep(p)

SpecAllocLive ==
    AllocInit /\ [][AllocNextLive]_vars /\ \A p \in Procs : WF_vars(AllocStep(p))

(***************************************************************************)
(* Claims about the sequence allocator.                                    *)
(***************************************************************************)
RECURSIVE SumBlocks(_)
SumBlocks(S) == IF S = {} THEN 0
                ELSE LET p == CHOOSE x \in S : TRUE
                     IN ablock[p] + SumBlocks(S \ {p})

ReturnedOn(e) == {p \in Procs : apc[p] = "returned" /\ aent[p] = e}
Contiguous(s) == \A i \in 1..(Len(s) - 1) : s[i + 1] = s[i] + 1
InitialThreshold(e) == IF seqInit[e].null THEN 0 ELSE seqInit[e].val

\* C1: whatever the interleaving of the concurrent allocations on one entity,
\* the returned id ranges are contiguous, of the requested sizes, pairwise
\* disjoint, and together they are exactly oldThreshold+1 .. oldThreshold+sum(b).
C1_DisjointContiguousRanges ==
    \A e \in Entities :
        /\ \A p \in ReturnedOn(e) :
              Len(aresult[p]) = ablock[p] /\ Contiguous(aresult[p])
        /\ \A p, q \in ReturnedOn(e) :
              p # q => Range(aresult[p]) \cap Range(aresult[q]) = {}
        /\ UNION {Range(aresult[p]) : p \in ReturnedOn(e)}
              = (InitialThreshold(e) + 1)..(InitialThreshold(e) + SumBlocks(ReturnedOn(e)))

\* two allocations on the same entity have both returned non-empty ranges
C1_Witness ==
    \E p, q \in Procs :
        /\ p # q /\ aent[p] = aent[q]
        /\ apc[p] = "returned" /\ apc[q] = "returned"
        /\ ablock[p] >= 1 /\ ablock[q] >= 1

\* C2: an allocation of b >= 1 ids that read threshold t (NULL read as 0)
\* returns <<t+1, ..., t+b>> and its commit stores t+b as the threshold.
C2_BlockFromThreshold ==
    \A p \in Procs :
        (apc[p] = "returned" /\ ablock[p] >= 1) =>
            LET t == IF aread[p].null THEN 0 ELSE aread[p].val
            IN /\ aresult[p] = [i \in 1..ablock[p] |-> t + i]
               /\ athr[p] = t + ablock[p]

\* threshold 10 and block size 3 gave <<11, 12, 13>> and stored 13
C2_Witness ==
    \E p \in Procs :
        /\ apc[p] = "returned" /\ aread[p] = Num(10) /\ ablock[p] = 3
        /\ aresult[p] = <<11, 12, 13>> /\ athr[p] = 13

\* an allocation on a row holding NULL has returned
C2_NullWitness ==
    \E p \in Procs : apc[p] = "returned" /\ aread[p] = NULL /\ ablock[p] >= 1

(***************************************************************************)
(* _build_update_sql and _reorder_tuple_for_update, oracle_writer.py       *)
(* 266-328.  A statement is kept as its two clauses, each a sequence of    *)
(* [col, ph]: "col = :ph".                                                 *)
(***************************************************************************)
MaxPkCols == 2      \* longest pk_cols list

ColNames == {"PK1", "PK2", "A", "B"}
Vals == {0, 1}

SeqsUpTo(S, n) == UNION {[1..k -> S] : k \in 0..n}
Distinct(s) == \A i, j \in 1..Len(s) : s[i] = s[j] => i = j
ColumnLists == {c \in SeqsUpTo(ColNames, Cardinality(ColNames)) : Len(c) >= 1 /\ Distinct(c)}
PkLists == {k \in SeqsUpTo(ColNames, MaxPkCols) : Len(k) >= 1}

\* c in <list>
InList(c, list) == \E i \in 1..Len(list) : list[i] = c

\* list.index(c), 1-based; the caller has checked that c is in the list
IndexOf(list, c) == CHOOSE i \in 1..Len(list) :
                        list[i] = c /\ \A j \in 1..(i - 1) : list[j] # c

\* [i for i in range(len(s)) if keep(s[i])], 1-based
RECURSIVE KeptIndexes(_, _, _)
KeptIndexes(s, drop, i) ==
    IF i > Len(s) THEN <<>>
    ELSE IF InList(s[i], drop) THEN KeptIndexes(s, drop, i + 1)
         ELSE <<i>> \o KeptIndexes(s, drop, i + 1)

\* set_cols = [c for c in columns if c not in pk_cols]
SetCols(columns, pk_cols) ==
    LET ix == KeptIndexes(columns, pk_cols, 1)
    IN [k \in 1..Len(ix) |-> columns[ix[k]]]

\* set_clause: "{col} = :{i+1}" for i, col in enumerate(set_cols)
SetClause(columns, pk_cols) ==
    LET sc == SetCols(columns, pk_cols)
    IN [i \in 1..Len(sc) |-> [col |-> sc[i], ph |-> i]]

\* where_parts: "{pk_col} = :{len(set_cols) + j}" for j, pk_col in enumerate(pk_cols, start=1)
WhereFromOne(columns, pk_cols) ==
    [j \in 1..Len(pk_cols) |-> [col |-> pk_cols[j], ph |-> j]]
WhereParts(columns, pk_cols) ==
    [j \in 1..Len(pk_cols) |->
        [col |-> pk_cols[j], ph |-> Len(SetCols(columns, pk_cols)) + j]]

BuildUpdateSql(columns, pk_cols) ==
    [kind |-> "update", set |-> SetClause(columns, pk_cols),
     where |-> WhereParts(columns, pk_cols)]

\* set_col_indexes: positions of the columns not in pk_cols, in column order
SetColIndexes(all_cols, pk_cols) == KeptIndexes(all_cols, pk_cols, 1)

\* pk_col_indexes = [all_cols.index(pk) for pk in pk_cols]
PkIndexesInColumnOrder(all_cols, pk_cols) ==
    LET RECURSIVE Pick(_)
        Pick(i) == IF i > Len(all_cols) THEN <<>>
                   ELSE IF InList(all_cols[i], pk_cols) THEN <<i>> \o Pick(i + 1)
                        ELSE Pick(i + 1)
    IN Pick(1)
PkColIndexes(all_cols, pk_cols) ==
    [j \in 1..Len(pk_cols) |-> IndexOf(all_cols, pk_cols[j])]

\* set_part + pk_part of one row
ReorderRow(row, all_cols, pk_cols) ==
    LET si == SetColIndexes(all_cols, pk_cols)
        pi == PkColIndexes(all_cols, pk_cols)
    IN [k \in 1..Len(si) |-> row[si[k]]] \o [k \in 1..Len(pi) |-> row[pi[k]]]

ReorderTupleForUpdate(data_tuples, all_cols, pk_cols) ==
    [r \in 1..Len(data_tuples) |-> ReorderRow(data_tuples[r], all_cols, pk_cols)]

\* update_sql = self._build_update_sql(all_cols, pk_cols)
SqlBuild ==
    /\ qpc = "start"
    /\ qsql' = BuildUpdateSql(qcols, qpk)
    /\ qpc' = "built"
    /\ UNCHANGED <<qcols, qpk, qrows, qshifted>>
    /\ UNCHANGED notSql

\* all_cols.index(pk) raises ValueError for a pk that is no column
SqlReorderMissing ==
    /\ qpc = "built"
    /\ \E j \in 1..Len(qpk) : ~InList(qpk[j], qcols)
    /\ qpc' = "ValueError"
    /\ UNCHANGED <<qcols, qpk, qrows, qsql, qshifted>>
    /\ UNCHANGED notSql

\* shifted_tuples = self._reorder_tuple_for_update(data_tuples, all_cols, pk_cols)
SqlReorder ==
    /\ qpc = "built"
    /\ \A j \in 1..Len(qpk) : InList(qpk[j], qcols)
    /\ qshifted' = ReorderTupleForUpdate(qrows, qcols, qpk)
    /\ qpc' = "done"
    /\ UNCHANGED <<qcols, qpk, qrows, qsql>>
    /\ UNCHANGED notSql

SqlInit ==
    /\ AllocIdle
    /\ WriterIdle
    /\ PoolIdle
    /\ MergeIdle
    /\ qpc = "start"
    /\ qcols \in ColumnLists
    /\ qpk \in PkLists
    /\ qrows \in {<<r>> : r \in [1..Len(qcols) -> Vals]}
    /\ qsql = NoSql
    /\ qshifted = <<>>

SqlNext == SqlBuild \/ SqlReorderMissing \/ SqlReorder

SpecSql == SqlInit /\ [][SqlNext]_vars

(***************************************************************************)
(* Claims about the UPDATE statement and the reordered tuples.             *)
(***************************************************************************)
\* the placeholders of a statement in the order they are written
Placeholders(sql) == sql.set \o sql.where
\* the value a row tuple (in column order) holds for column c
ValueOf(row, cols, c) == row[CHOOSE i \in 1..Len(cols) : cols[i] = c]
NonKeyInOrder(cols, pk) == SelectSeq(cols, LAMBDA c : \A j \in 1..Len(pk) : pk[j] # c)

\* C6: when every pk_cols entry is a column, the statement's placeholders are
\* :1..:n in order, naming first the non-key columns in column order and then
\* the key columns in pk_cols order; every reordered tuple has n values and its
\* k-th value is the row's value of the column the k-th placeholder names.
C6_PlaceholdersMatchValues ==
    qpc = "done" =>
        LET ph == Placeholders(qsql)
        IN /\ \A k \in 1..Len(ph) : ph[k].ph = k
           /\ [k \in 1..Len(ph) |-> ph[k].col] = NonKeyInOrder(qcols, qpk) \o qpk
           /\ \A r \in 1..Len(qrows) :
                 /\ Len(qshifted[r]) = Len(ph)
                 /\ \A k \in 1..Len(ph) :
                       qshifted[r][k] = ValueOf(qrows[r], qcols, ph[k].col)

\* columns [PK1, A, B, PK2] with pk_cols [PK1, PK2] bind (A, B, PK1, PK2)
C6_Witness ==
    /\ qpc = "done"
    /\ qcols = <<"PK1", "A", "B", "PK2">> /\ qpk = <<"PK1", "PK2">>
    /\ qrows = <<<<0, 1, 0, 1>>>>
    /\ qsql.set = <<[col |-> "A", ph |-> 1], [col |-> "B", ph |-> 2]>>
    /\ qsql.where = <<[col |-> "PK1", ph |-> 3], [col |-> "PK2", ph |-> 4]>>
    /\ qshifted = <<<<1, 0, 0, 1>>>>

(***************************************************************************)
(* The Oracle writer: helpers.                                             *)
(***************************************************************************)
MaxRows == 5        \* most rows in a batch
MaxChunk == 2       \* largest chunk_size passed explicitly
OraclePoolMax == 1  \* sessions the attached session pool can hand out

DefaultChunkSize == 50000
NoneVal == -1       \* Python None / SQL NULL in a data cell

TableCols == {"ID", "PK1", "PK2", "NAME"}

\* Python's binding of a call's keyword arguments to a signature: TypeError
\* when a name gets two values, a parameter without default gets none, or a
\* name is no parameter and the function takes no **kwargs
BindError(required, optional, varkw, explicit, starkw) ==
    \/ explicit \cap starkw # {}
    \/ ~(required \subseteq (explicit \cup starkw))
    \/ ~varkw /\ ~((explicit \cup starkw) \subseteq (required \cup optional))

\* def insert_data(self, df, pk_col=None, sequence_name=None, chunk_size=50000)
InsertDataBindError(explicit, starkw) ==
    BindError({}, {"pk_col", "sequence_name", "chunk_size"}, FALSE, explicit, starkw)

\* def update_data(self, df, pk_cols, chunk_size=50000)
UpdateDataBindError(explicit, starkw) ==
    BindError({"pk_cols"}, {"chunk_size"}, FALSE, explicit, starkw)

\* OracleKerberosPool.__init__(self, minconn, maxconn, dsn, user="", ...,
\* **kwargs) called by connect() with dsn=, min=, max=, increment=,
\* external_auth=, threaded=, getmode=
PoolCtorBindError ==
    BindError({"minconn", "maxconn", "dsn"},
              {"user", "password", "external_auth", "increment", "getmode", "threaded"},
              TRUE,
              {"dsn", "min", "max", "increment", "external_auth", "threaded", "getmode"},
              {})

Truthy(x) == x # "None" /\ x # ""

\* df.empty: no rows or no columns
DfEmpty(cols, rows) == Len(cols) = 0 \/ Len(rows) = 0

\* df[col] = None for a column the frame lacks: appended as the last column
AddNoneColumn(cols, rows, col) ==
    [cols |-> Append(cols, col),
     rows |-> [i \in 1..Len(rows) |-> Append(rows[i], NoneVal)]]

\* df[col] = values: positional assignment to an existing column
AssignReversed(cols, rows, col, values) ==
    [i \in 1..Len(rows) |->
        [rows[i] EXCEPT ![IndexOf(cols, col)] = values[Len(rows) + 1 - i]]]
AssignColumn(cols, rows, col, values) ==
    [i \in 1..Len(rows) |-> [rows[i] EXCEPT ![IndexOf(cols, col)] = values[i]]]

\* s[a:b] on a sequence, Python slice semantics (0-based, negative from the end)
PyClip(i, n) == IF i < 0 THEN (IF n + i < 0 THEN 0 ELSE n + i)
                ELSE IF i > n THEN n ELSE i
PySlice(s, a, b) ==
    LET lo == PyClip(a, Len(s))
        hi == PyClip(b, Len(s))
    IN IF lo < hi THEN SubSeq(s, lo + 1, hi) ELSE <<>>

\* df.iloc[start_idx:end_idx].to_records(index=False).tolist()
SliceWholeFrame(rows, start_idx, end_idx) == rows
DataTuples(rows, start_idx, end_idx) == PySlice(rows, start_idx, end_idx)

\* _build_insert_sql: INSERT INTO t (col1, ...) VALUES (:1, ...)
BuildInsertSql(columns) ==
    [kind |-> "insert",
     set |-> [i \in 1..Len(columns) |-> [col |-> columns[i], ph |-> i]],
     where |-> <<>>]

(***************************************************************************)
(* The database's side of cur.executemany(sql, tuples).                    *)
(***************************************************************************)
NumPlaceholders(sql) == Len(sql.set) + Len(sql.where)

\* the statement parses and every tuple binds all of its placeholders
Executable(sql, tuples) ==
    /\ sql.kind = "update" => Len(sql.set) >= 1 /\ Len(sql.where) >= 1
    /\ \A i \in 1..Len(sql.set) : sql.set[i].col \in TableCols
    /\ \A i \in 1..Len(sql.where) : sql.where[i].col \in TableCols
    /\ \A r \in 1..Len(tuples) : Len(tuples[r]) = NumPlaceholders(sql)

\* the value the statement's SET / VALUES part gives column c, else dflt
Assigned(sql, tuple, c, dflt) ==
    IF \E i \in 1..Len(sql.set) : sql.set[i].col = c
    THEN tuple[sql.set[CHOOSE i \in 1..Len(sql.set) : sql.set[i].col = c].ph]
    ELSE dflt

Matches(sql, tuple, row) ==
    \A i \in 1..Len(sql.where) : row[sql.where[i].col] = tuple[sql.where[i].ph]

ExecuteOne(table, sql, tuple) ==
    IF sql.kind = "insert"
    THEN Append(table, [c \in TableCols |-> Assigned(sql, tuple, c, NoneVal)])
    ELSE [j \in 1..Len(table) |->
            IF Matches(sql, tuple, table[j])
            THEN [c \in TableCols |-> Assigned(sql, tuple, c, table[j][c])]
            ELSE table[j]]

RECURSIVE ExecuteMany(_, _, _)
ExecuteMany(table, sql, tuples) ==
    IF tuples = <<>> THEN table
    ELSE ExecuteMany(ExecuteOne(table, sql, Head(tuples)), sql, Tail(tuples))

Event(op, tuples) == [op |-> op, tuples |-> tuples]

(***************************************************************************)
(* Inputs of a call.                                                       *)
(***************************************************************************)
DfColumnLists == {<<"NAME">>, <<"ID", "NAME">>, <<"PK1", "NAME", "PK2">>, <<"PK1", "PK2">>}

CellValue(c, i, s) ==
    CASE c = "ID" -> 100 + i
      [] c = "NAME" -> 10 + i
      [] c = "PK1" -> 1 + ((i + s) % 2)
      [] OTHER -> 1 + (((i + s) \div 2) % 2)

Batch(cols, n, s) == [i \in 1..n |-> [k \in 1..Len(cols) |-> CellValue(cols[k], i, s)]]

TableRow(id, pk1, pk2, name) ==
    [c \in TableCols |-> CASE c = "ID" -> id [] c = "PK1" -> pk1
                           [] c = "PK2" -> pk2 [] OTHER -> name]
InitialTarget == <<TableRow(901, 1, 1, 0), TableRow(902, 1, 2, 0), TableRow(903, 2, 2, 0)>>

ChunkSizes == (1..MaxChunk) \cup {DefaultChunkSize}
\* chunk_size is an int parameter nothing validates
AnyChunkSizes == (0 - MaxChunk)..MaxChunk
\* executemany calls followed per call of the writer
MaxLog == 2 * MaxRows + 2

(***************************************************************************)
(* The Oracle writer: one call, step by step.                              *)
(***************************************************************************)
Raised(type, at) == [w EXCEPT !.pc = "raised", !.err = [type |-> type, at |-> at]]

KeywordNames == {"mode", "pk_col", "sequence_name", "chunk_size", "pk_cols"}
PkArgs == {<<>>, <<"PK1">>, <<"PK1", "PK2">>, <<"PK2", "PK1">>}

NewCall(entry, keys, args, cols, n, s) ==
    /\ w.pc = Idle
    /\ w' = [w EXCEPT !.pc = entry, !.entry = entry, !.keys = keys, !.args = args,
                      !.cols = cols, !.rows = Batch(cols, n, s),
                      !.df0 = [cols |-> cols, rows |-> Batch(cols, n, s)]]
    /\ UNCHANGED <<seqTable, wtxn, target, target0, wlog>>
    /\ UNCHANGED notWriter

\* writer.insert_data(df, pk_col=..., sequence_name=..., chunk_size=...)
CallInsertData ==
    /\ w.pc = Idle
    /\ \E cols \in DfColumnLists, n \in 0..MaxRows, pk \in {"None", "ID"},
       sq \in {"None", "ORDERS", "ITEMS", "GHOST"}, c \in ChunkSizes :
        NewCall("insert_data", {"pk_col", "sequence_name", "chunk_size"},
                [NoArgs EXCEPT !.pk_col = pk, !.sequence_name = sq, !.chunk_size = c],
                cols, n, 0)

\* writer.update_data(df, pk_cols=..., chunk_size=...)
CallUpdateData ==
    /\ w.pc = Idle
    /\ \E cols \in DfColumnLists, n \in 0..MaxRows, s \in {0, 1},
       pks \in PkArgs, c \in ChunkSizes :
        NewCall("update_data", {"pk_cols", "chunk_size"},
                [NoArgs EXCEPT !.pk_cols = pks, !.chunk_size = c], cols, n, s)

\* writer.write_as_dataframe(df, **kwargs) / service.write_dataframe(df, **kwargs):
\* a keyword that is not passed keeps the value its parameter defaults to
CallWrite ==
    /\ w.pc = Idle
    /\ \E entry \in {"write_as_dataframe", "write_dataframe"},
       cols \in DfColumnLists, n \in 0..1, keys \in SUBSET KeywordNames,
       mode \in {"insert", "update", "merge"}, pks \in {<<>>, <<"PK1">>} :
        NewCall(entry, keys,
                [mode |-> IF "mode" \in keys THEN mode ELSE "None",
                 pk_col |-> IF "pk_col" \in keys THEN "ID" ELSE "None",
                 sequence_name |-> IF "sequence_name" \in keys THEN "ORDERS" ELSE "None",
                 chunk_size |-> IF "chunk_size" \in keys THEN 1 ELSE DefaultChunkSize,
                 pk_cols |-> IF "pk_cols" \in keys THEN pks ELSE <<>>],
                cols, n, 0)

\* WriterService.write_dataframe, writer_service.py 30-45
ServiceWriteDataframe ==
    /\ w.pc = "write_dataframe"
    /\ w' = IF DfEmpty(w.cols, w.rows)
            THEN [w EXCEPT !.pc = "returned"]
            ELSE [w EXCEPT !.pc = "write_as_dataframe"]
    /\ UNCHANGED <<seqTable, wtxn, target, target0, wlog>>
    /\ UNCHANGED notWriter

\* the modes that mode_handlers has a handler for, oracle_writer.py 94-97
ModeHandlersWithMerge == {"update", "insert", "merge"}
ModeHandlers == {"update", "insert"}

\* OracleDBWriter.write_as_dataframe, oracle_writer.py 74-111: the asserts on
\* mode are outside the try, the assert on pk_cols is inside it; the handler
\* then calls insert_data(df, **kwargs) or update_data(df, pk_cols=pk_cols, **kwargs)
WriteAsDataframe ==
    /\ w.pc = "write_as_dataframe"
    /\ w' = IF ~Truthy(w.args.mode) \/ w.args.mode \notin ModeHandlers
            THEN Raised("AssertionError", "write_as_dataframe")
            ELSE IF w.args.mode = "update"
            THEN IF w.args.pk_cols = <<>>
                 THEN Raised("ValueError", "write_as_dataframe")
                 ELSE IF UpdateDataBindError({"pk_cols"}, w.keys)
                      THEN Raised("TypeError", "write_as_dataframe")
                      ELSE [w EXCEPT !.pc = "update_data"]
            ELSE IF InsertDataBindError({}, w.keys)
                 THEN Raised("TypeError", "write_as_dataframe")
                 ELSE [w EXCEPT !.pc = "insert_data"]
    /\ UNCHANGED <<seqTable, wtxn, target, target0, wlog>>
    /\ UNCHANGED notWriter

\* insert_data up to the sequence fill, oracle_writer.py 129-145
InsertData ==
    /\ w.pc = "insert_data"
    /\ LET pk == w.args.pk_col
           sq == w.args.sequence_name
           df == IF InList(pk, w.cols) THEN [cols |-> w.cols, rows |-> w.rows]
                 ELSE AddNoneColumn(w.cols, w.rows, pk)
       IN w' = IF DfEmpty(w.cols, w.rows)
               THEN [w EXCEPT !.pc = "returned", !.body = "insert_data"]
               ELSE IF Truthy(sq) /\ ~Truthy(pk)
               THEN [Raised("ValueError", "insert_data") EXCEPT !.body = "insert_data"]
               ELSE IF Truthy(sq) /\ Truthy(pk)
               THEN [w EXCEPT !.pc = "fill", !.body = "insert_data",
                              !.cols = df.cols, !.rows = df.rows]
               ELSE [w EXCEPT !.pc = "connect", !.body = "insert_data",
                              !.sql = BuildInsertSql(w.cols)]
    /\ UNCHANGED <<seqTable, wtxn, target, target0, wlog>>
    /\ UNCHANGED notWriter

\* update_data up to the statement, oracle_writer.py 195-211
UpdateData ==
    /\ w.pc = "update_data"
    /\ LET pks == w.args.pk_cols
       IN w' = IF DfEmpty(w.cols, w.rows)
               THEN [w EXCEPT !.pc = "returned", !.body = "update_data"]
               ELSE IF pks = <<>> \/ \E j \in 1..Len(pks) : ~InList(pks[j], w.cols)
               THEN [Raised("ValueError", "update_data") EXCEPT !.body = "update_data"]
               ELSE [w EXCEPT !.pc = "connect", !.body = "update_data",
                              !.sql = BuildUpdateSql(w.cols, pks)]
    /\ UNCHANGED <<seqTable, wtxn, target, target0, wlog>>
    /\ UNCHANGED notWriter

\* connect(), oracle_writer.py 46-72: builds the pool when there is none,
\* then getconn() (SPOOL_ATTRVAL_NOWAIT: an error when no session is free)
ConnectOutcome ==
    IF w.pool = "None" /\ PoolCtorBindError THEN "TypeError"
    ELSE IF w.busy >= OraclePoolMax THEN "DatabaseError"
    ELSE "ok"

Connected(pc) == [w EXCEPT !.pc = pc, !.pool = "pool", !.conn = TRUE, !.busy = @ + 1]

\* self._session_pool.putconn(conn)
PutConnKeepsSlot(ws) == [ws EXCEPT !.conn = FALSE]
PutConn(ws) == [ws EXCEPT !.conn = FALSE, !.busy = @ - 1]

\* the finally blocks: putconn(conn) with nothing around it.  On a session
\* that has lost its connection self.release(session) raises, and that
\* error is the one leaving the method
ReleaseSkipped(ws, lost) == ws
Release(ws, lost) ==
    IF lost THEN [ws EXCEPT !.pc = "raised", !.conn = FALSE,
                            !.err = [type |-> "DatabaseError", at |-> "putconn"]]
    ELSE PutConn(ws)

\* _fill_df_pk_with_sequence: conn = self.connect(), oracle_writer.py 339-343
FillConnect ==
    /\ w.pc = "fill"
    /\ w' = IF ConnectOutcome = "ok" THEN Connected("fill_alloc")
            ELSE Raised(ConnectOutcome, "connect")
    /\ UNCHANGED <<seqTable, wtxn, target, target0, wlog>>
    /\ UNCHANGED notWriter

\* block_size=count_needed
CountNeeded(rows) == Len(rows)

\* _fill_df_pk_with_sequence: the allocation, df[pk_col] = seq_values and the
\* finally, oracle_writer.py 344-355; then insert_sql is built (145)
FillAllocate ==
    /\ w.pc = "fill_alloc"
    /\ LET row == seqTable[w.args.sequence_name]
           old == OldThreshold(row)
           new_end == NewEnd(old, CountNeeded(w.rows))
           ids == AllocatedIds(NewStart(old), new_end)
       IN \E lost \in BOOLEAN :
          IF ~row.exists
          THEN /\ w' = Release(Raised("ValueError", "_allocate_custom_sequence_block"), lost)
               /\ UNCHANGED seqTable
          ELSE /\ seqTable' = [seqTable EXCEPT ![w.args.sequence_name] = Num(new_end)]
               /\ w' = IF Len(ids) # Len(w.rows)
                       THEN Release([Raised("ValueError", "_fill_df_pk_with_sequence")
                                        EXCEPT !.ids = ids], lost)
                       ELSE Release([w EXCEPT
                               !.pc = "connect", !.ids = ids,
                               !.rows = AssignColumn(w.cols, w.rows, w.args.pk_col, ids),
                               !.sql = BuildInsertSql(w.cols)], lost)
    /\ UNCHANGED <<wtxn, target, target0, wlog>>
    /\ UNCHANGED notWriter

\* conn = self.connect() of insert_data (147) / update_data (213)
Connect ==
    /\ w.pc = "connect"
    /\ w' = IF ConnectOutcome = "ok" THEN [Connected("loop") EXCEPT !.start = 0]
            ELSE Raised(ConnectOutcome, "connect")
    /\ wtxn' = target
    /\ UNCHANGED <<seqTable, target, target0, wlog>>
    /\ UNCHANGED notWriter

\* the tuples of the chunk at start_idx: data_tuples, shifted for update
ChunkTuples ==
    LET data_tuples == DataTuples(w.rows, w.start, w.start + w.args.chunk_size)
    IN IF w.sql.kind = "update"
       THEN ReorderTupleForUpdate(data_tuples, w.cols, w.args.pk_cols)
       ELSE data_tuples

\* cur.executemany(sql, tuples) succeeds
ChunkExecute ==
    /\ w.pc = "loop"
    /\ w.start < Len(w.rows)
    /\ Len(wlog) < MaxLog
    /\ Executable(w.sql, ChunkTuples)
    /\ wtxn' = ExecuteMany(wtxn, w.sql, ChunkTuples)
    /\ wlog' = Append(wlog, Event("execute", ChunkTuples))
    /\ w' = [w EXCEPT !.pc = "commit"]
    /\ UNCHANGED <<seqTable, target, target0>>
    /\ UNCHANGED notWriter

\* cur.executemany(sql, tuples) raises, with the rows before the failing one
\* applied in the open transaction
ChunkExecuteFails ==
    /\ w.pc = "loop"
    /\ w.start < Len(w.rows)
    /\ Len(wlog) < MaxLog
    /\ \E j \in {0, Len(ChunkTuples) - 1} :
          /\ j >= 0
          /\ j > 0 => Executable(w.sql, ChunkTuples)
          /\ wtxn' = ExecuteMany(wtxn, w.sql, SubSeq(ChunkTuples, 1, j))
    /\ wlog' = Append(wlog, Event("failed", ChunkTuples))
    /\ w' = [w EXCEPT !.pc = "except",
                      !.err = [type |-> "DatabaseError", at |-> "executemany"]]
    /\ UNCHANGED <<seqTable, target, target0>>
    /\ UNCHANGED notWriter

\* conn.commit(); start_idx = end_idx
ChunkCommit ==
    /\ w.pc = "commit"
    /\ target' = wtxn
    /\ wlog' = Append(wlog, Event("commit", <<>>))
    /\ w' = [w EXCEPT !.pc = "loop", !.start = @ + w.args.chunk_size]
    /\ UNCHANGED <<seqTable, wtxn, target0>>
    /\ UNCHANGED notWriter

\* the loop ends: finally putconn, return
LoopExit ==
    /\ w.pc = "loop"
    /\ ~(w.start < Len(w.rows))
    /\ \E lost \in BOOLEAN : w' = Release([w EXCEPT !.pc = "returned"], lost)
    /\ UNCHANGED <<seqTable, wtxn, target, target0, wlog>>
    /\ UNCHANGED notWriter

\* except: conn.rollback(); raise; finally putconn.  On a lost session the
\* rollback raises as well and the server drops the transaction
ExceptNoRollback ==
    /\ w.pc = "except"
    /\ wlog' = Append(wlog, Event("rollback", <<>>))
    /\ w' = PutConn([w EXCEPT !.pc = "raised"])
    /\ UNCHANGED <<seqTable, wtxn, target, target0>>
    /\ UNCHANGED notWriter
ExceptRollback ==
    /\ w.pc = "except"
    /\ wtxn' = target
    /\ wlog' = Append(wlog, Event("rollback", <<>>))
    /\ \E lost \in BOOLEAN : w' = Release([w EXCEPT !.pc = "raised"], lost)
    /\ UNCHANGED <<seqTable, target, target0>>
    /\ UNCHANGED notWriter

WriterInit ==
    /\ AllocCallersIdle
    /\ SqlIdle
    /\ PoolIdle
    /\ MergeIdle
    /\ seqTable \in {[e \in Entities |->
                        IF e = "ORDERS" THEN Num(t)
                        ELSE IF e = "ITEMS" THEN NULL ELSE NoRow] : t \in {0, 10}}
    /\ seqInit = seqTable
    /\ w \in {[pc |-> Idle, entry |-> "none", keys |-> {}, args |-> NoArgs,
               cols |-> <<>>, rows |-> <<>>, df0 |-> [cols |-> <<>>, rows |-> <<>>],
               body |-> "none", sql |-> NoSql, start |-> 0, ids |-> <<>>,
               pool |-> pl, busy |-> 0, conn |-> FALSE, err |-> NoError] :
              pl \in {"None", "pool"}}
    /\ target = InitialTarget
    /\ target0 = target
    /\ wtxn = target
    /\ wlog = <<>>

WriterNext ==
    \/ CallInsertData \/ CallUpdateData \/ CallWrite
    \/ ServiceWriteDataframe \/ WriteAsDataframe
    \/ InsertData \/ UpdateData
    \/ FillConnect \/ FillAllocate \/ Connect
    \/ ChunkExecute \/ ChunkExecuteFails \/ ChunkCommit \/ LoopExit \/ ExceptRollback

SpecWriter == WriterInit /\ [][WriterNext]_vars

\* writer.insert_data(df, chunk_size=c) / writer.update_data(df, pk_cols=...,
\* chunk_size=c) with any integer c
CallAnyChunk ==
    /\ w.pc = Idle
    /\ \E entry \in {"insert_data", "update_data"}, cols \in DfColumnLists,
          n \in 1..MaxRows, c \in AnyChunkSizes :
        NewCall(entry, {"pk_cols", "chunk_size"},
                [NoArgs EXCEPT !.pk_cols = <<"PK1">>, !.chunk_size = c], cols, n, 1)

LoopNext ==
    \/ CallAnyChunk \/ InsertData \/ UpdateData \/ Connect
    \/ ChunkExecute \/ ChunkExecuteFails \/ ChunkCommit \/ LoopExit \/ ExceptRollback

SpecLoop == WriterInit /\ [][LoopNext]_vars

(***************************************************************************)
(* Claims about the Oracle writer.                                         *)
(***************************************************************************)
Finished == w.pc \in {"returned", "raised"}
SequenceFill == /\ w.body = "insert_data"
                /\ Truthy(w.args.sequence_name) /\ Truthy(w.args.pk_col)
CeilDiv(n, c) == (n + c - 1) \div c
Min(a, b) == IF a < b THEN a ELSE b

\* the table row a tuple of the batch (in the order of cols) stands for
RowOf(cols, tuple) ==
    [c \in TableCols |->
        IF \E k \in 1..Len(cols) : cols[k] = c
        THEN tuple[CHOOSE k \in 1..Len(cols) : cols[k] = c]
        ELSE NoneVal]

\* the k-th chunk of rows cut into chunks of c rows
ExpectedChunk(rows, c, k) == SubSeq(rows, (k - 1) * c + 1, Min(k * c, Len(rows)))

\* C3: an insert with pk_col and sequence_name allocates exactly len(batch)
\* ids and every inserted row i carries the i-th id in pk_col, whether or not
\* the batch had that column, with its other columns as passed; when the
\* insert returns, all rows of the batch are in the table.
C3_IdsAssignedPositionally ==
    SequenceFill =>
        LET pk == w.args.pk_col
            sq == w.args.sequence_name
            n == Len(w.df0.rows)
            base == Len(target0)
        IN /\ seqTable[sq] # seqInit[sq] =>
                /\ seqTable[sq] = Num(InitialThreshold(sq) + n)
                /\ w.pc # "fill_alloc" => Len(w.ids) = n
           /\ \A j \in 1..(Len(wtxn) - base) :
                /\ wtxn[base + j][pk] = w.ids[j]
                /\ \A k \in 1..Len(w.df0.cols) :
                      w.df0.cols[k] # pk => wtxn[base + j][w.df0.cols[k]] = w.df0.rows[j][k]
           /\ (w.pc = "returned" /\ n >= 1) => Len(target) = base + n

\* threshold 0, a batch of two rows without the ID column: ids 1 and 2
C3_Witness ==
    /\ SequenceFill /\ w.pc = "returned"
    /\ seqInit["ORDERS"] = Num(0) /\ w.args.sequence_name = "ORDERS"
    /\ w.df0.cols = <<"NAME">> /\ Len(w.df0.rows) = 2
    /\ Len(target) = Len(target0) + 2
    /\ target[Len(target0) + 1] = TableRow(1, NoneVal, NoneVal, 11)
    /\ target[Len(target0) + 2] = TableRow(2, NoneVal, NoneVal, 12)

\* the ids overwrite a pk column the batch already had
C3_WitnessOverwrite ==
    /\ SequenceFill /\ w.pc = "returned"
    /\ w.df0.cols = <<"ID", "NAME">> /\ Len(w.df0.rows) = 2
    /\ w.df0.rows[1][1] = 101 /\ target[Len(target0) + 1]["ID"] = w.ids[1]

\* C4: the statements of an insert with chunk_size c >= 1 are, in order, the
\* chunks 1, 2, ... of the batch (c rows each, the last one the remainder),
\* each followed by its commit before the next statement; an insert that
\* returns has issued exactly ceil(n / c) of them.
C4_ChunksInOrderEachCommitted ==
    (w.body = "insert_data" /\ w.args.chunk_size >= 1) =>
        LET c == w.args.chunk_size
            n == Len(w.rows)
        IN /\ \A j \in 1..Len(wlog) :
                IF j % 2 = 1
                THEN /\ wlog[j].op \in {"execute", "failed"}
                     /\ wlog[j].tuples = ExpectedChunk(w.rows, c, (j + 1) \div 2)
                     /\ Len(wlog[j].tuples) = c \/ (j + 1) \div 2 = CeilDiv(n, c)
                ELSE /\ wlog[j].op \in {"commit", "rollback"}
                     /\ wlog[j].op = "commit" <=> wlog[j - 1].op = "execute"
                     /\ wlog[j].op = "rollback" => j = Len(wlog)
           /\ (w.pc = "returned" /\ n >= 1) =>
                /\ Len(wlog) = 2 * CeilDiv(n, c)
                /\ \A j \in 1..Len(wlog) : wlog[j].op \in {"execute", "commit"}
                /\ target = target0 \o [i \in 1..n |-> RowOf(w.cols, w.rows[i])]

\* five rows with chunk_size 2: three statements of 2, 2 and 1 rows
C4_Witness ==
    /\ w.body = "insert_data" /\ w.pc = "returned"
    /\ w.args.chunk_size = 2 /\ Len(w.rows) = 5
    /\ Len(wlog) = 6
    /\ Len(wlog[1].tuples) = 2 /\ Len(wlog[3].tuples) = 2 /\ Len(wlog[5].tuples) = 1

\* what an update of the table by the batch rows is to give: every table row
\* whose key columns equal a batch row's gets that row's non-key columns
IsKey(c, pk_cols) == \E j \in 1..Len(pk_cols) : pk_cols[j] = c
UpdatedBy(trow, cols, pk_cols, brow) ==
    IF \A k \in 1..Len(cols) : IsKey(cols[k], pk_cols) => trow[cols[k]] = brow[k]
    THEN [c \in TableCols |->
            IF (\E k \in 1..Len(cols) : cols[k] = c) /\ ~IsKey(c, pk_cols)
            THEN brow[CHOOSE k \in 1..Len(cols) : cols[k] = c]
            ELSE trow[c]]
    ELSE trow

RECURSIVE ExpectedUpdate(_, _, _, _)
ExpectedUpdate(table, cols, pk_cols, rows) ==
    IF rows = <<>> THEN table
    ELSE ExpectedUpdate([j \in 1..Len(table) |-> UpdatedBy(table[j], cols, pk_cols, Head(rows))],
                        cols, pk_cols, Tail(rows))

\* the table after the chunks before the one whose statement is wlog[j]
ExpectedBeforeChunk(k) ==
    LET done == SubSeq(w.rows, 1, Min((k - 1) * w.args.chunk_size, Len(w.rows)))
    IN IF w.body = "insert_data"
       THEN target0 \o [i \in 1..Len(done) |-> RowOf(w.cols, done[i])]
       ELSE ExpectedUpdate(target0, w.cols, w.args.pk_cols, done)

RECURSIVE Executed(_)
Executed(log) ==
    IF log = <<>> THEN <<>>
    ELSE (IF Head(log).op = "execute" THEN Head(log).tuples ELSE <<>>) \o Executed(Tail(log))

C7_UpdateByCompositeKey ==
    w.body = "update_data" =>
        /\ Len(wtxn) = Len(target0) /\ Len(target) = Len(target0)
        /\ \A j \in 1..Len(target0), c \in TableCols :
              (IsKey(c, w.args.pk_cols) \/ ~InList(c, w.df0.cols)) =>
                  wtxn[j][c] = target0[j][c] /\ target[j][c] = target0[j][c]
        /\ (w.pc = "returned" /\ Len(w.df0.rows) >= 1) =>
              /\ Len(Executed(wlog)) = Len(w.df0.rows)
              /\ target = ExpectedUpdate(target0, w.df0.cols, w.args.pk_cols, w.df0.rows)

\* two batch rows keyed (PK1, PK2): one matches a table row and sets its NAME
C7_Witness ==
    /\ w.body = "update_data" /\ w.pc = "returned"
    /\ w.df0.cols = <<"PK1", "NAME", "PK2">> /\ w.args.pk_cols = <<"PK1", "PK2">>
    /\ Len(w.df0.rows) = 2 /\ Len(Executed(wlog)) = 2
    /\ \E j \in 1..Len(target) :
          /\ target[j]["NAME"] = w.df0.rows[2][2] /\ target[j]["NAME"] # target0[j]["NAME"]
          /\ \A i \in 1..Len(target) : i # j => target[i] = target0[i]

\* a write call whose mode and options are valid for insert_data / update_data
ValidWrite ==
    /\ w.entry \in {"write_as_dataframe", "write_dataframe"}
    /\ ~DfEmpty(w.df0.cols, w.df0.rows)
    /\ "mode" \in w.keys
    /\ \/ /\ w.args.mode = "insert"
          /\ w.keys \subseteq {"mode", "pk_col", "sequence_name", "chunk_size"}
          /\ "sequence_name" \in w.keys => "pk_col" \in w.keys
       \/ /\ w.args.mode = "update"
          /\ w.keys \subseteq {"mode", "pk_cols", "chunk_size"}
          /\ "pk_cols" \in w.keys /\ w.args.pk_cols # <<>>

\* C8: a write with a valid mode and valid options runs the body of
\* insert_data (mode insert) or update_data (mode update) on the batch, and
\* the dispatch raises no error of its own.
C8_WriteDispatches ==
    (ValidWrite /\ Finished) =>
        /\ w.body = (IF w.args.mode = "insert" THEN "insert_data" ELSE "update_data")
        /\ w.err.at # "write_as_dataframe"

(***************************************************************************)
(* PostgreAuthPool (postgre_auth_pool.py), a psycopg2 SimpleConnectionPool *)
(* whose _connect and getconn / putconn are overridden.  __init__,         *)
(* _getkey, _getconn, _putconn and _closeall are the base class's, reached *)
(* through super(); they work on _pool, _used, _rused and _keys.  Threads  *)
(* call getconn() and putconn(conn, close=...) without a key, as every     *)
(* caller in the repository does.                                          *)
(***************************************************************************)
MaxCalls == 2       \* getconn calls made on one pool
MaxClock == 1       \* ticks of time.time()
MaxTtl == 1         \* largest token_ttl
MaxMinconn == 1     \* largest minconn
MaxMaxconn == 2     \* maxconn

\* dict operations on a mapping held as a function
DictSet(d, k, v) == [x \in DOMAIN d \cup {k} |-> IF x = k THEN v ELSE d[x]]
DictKeep(d, k) == d
DictDel(d, k) == [x \in DOMAIN d \ {k} |-> d[x]]
DictGet(d, k, default) == IF k \in DOMAIN d THEN d[k] ELSE default

PoolArgs ==
    {[minconn |-> mn, maxconn |-> MaxMaxconn, token_ttl |-> ttl, conninfo |-> ci] :
        mn \in 0..MaxMinconn, ttl \in 0..MaxTtl, ci \in {"absent", "mapping"}}

\* _connect: generate_db_auth_token may raise; **self.conninfo raises
\* AttributeError where the pool object has no such attribute; otherwise
\* psycopg2.connect hands back a connection or raises
ConnectErrors(a) ==
    {"TokenError"} \cup
    (IF a.conninfo = "absent" THEN {"AttributeError"} ELSE {"OperationalError"})
ConnectOutcomes(a) ==
    ConnectErrors(a) \cup (IF a.conninfo = "mapping" THEN {"ok"} ELSE {})

\* the call ends by raising: the thread is left without a connection
ThreadGivenNothing(type) == [ThreadIdle EXCEPT !.pc = "holding", !.err = type]
ThreadRaised(type) == [ThreadIdle EXCEPT !.err = type]

\* (now - created_at) > self._token_ttl
NeverStale(now, created_at, token_ttl) == FALSE
Stale(now, created_at, token_ttl) == (now - created_at) > token_ttl

\* __init__: super().__init__ calls self._connect() minconn times; k of them
\* succeed.  The overriding _connect records the creation time and returns
\* the connection: it does not append it to self._pool
PgInit ==
    /\ pstate = "new"
    /\ \E k \in 0..pargs.minconn, o \in ConnectErrors(pargs) :
        /\ k > 0 => "ok" \in ConnectOutcomes(pargs)
        /\ k < pargs.minconn => o \in ConnectOutcomes(pargs)
        /\ copen' = [c \in 1..k |-> TRUE]
        /\ _connection_created_at' = [c \in 1..k |-> clock]
        /\ pstate' = IF k = pargs.minconn THEN "ready" ELSE o
    /\ UNCHANGED <<pargs, closed, _pool, _used, _rused, _keys, clock, th>>
    /\ UNCHANGED notPool

\* time passes
Tick ==
    /\ pstate = "ready"
    /\ clock < MaxClock
    /\ clock' = clock + 1
    /\ UNCHANGED <<pargs, pstate, closed, _pool, _used, _rused, _keys,
                   _connection_created_at, copen, th>>
    /\ UNCHANGED notPool

\* getconn() -> super().getconn(key=None) -> _getconn: closed check, then
\* _getkey's  self._keys += 1
PgGetconn(t) ==
    /\ pstate = "ready"
    /\ th[t].pc = Idle
    /\ _keys < MaxCalls
    /\ IF closed
         THEN /\ th' = [th EXCEPT ![t] = ThreadRaised("PoolError")]
              /\ UNCHANGED _keys
         ELSE /\ th' = [th EXCEPT ![t] = [ThreadIdle EXCEPT !.pc = "getkey"]]
              /\ _keys' = _keys + 1
    /\ UNCHANGED <<pargs, pstate, closed, _pool, _used, _rused,
                   _connection_created_at, copen, clock>>
    /\ UNCHANGED notPool

\* _getkey's  return self._keys
PgGetkey(t) ==
    /\ th[t].pc = "getkey"
    /\ th' = [th EXCEPT ![t].key = _keys, ![t].pc = "getconn"]
    /\ UNCHANGED <<pargs, pstate, closed, _pool, _used, _rused, _keys,
                   _connection_created_at, copen, clock>>
    /\ UNCHANGED notPool

\* the rest of _getconn: the key's connection, else an idle one, else a new
\* one through self._connect(key) unless len(self._used) == self.maxconn
PgBaseGetconn(t) ==
    /\ th[t].pc = "getconn"
    /\ LET key == th[t].key IN
       IF key \in DOMAIN _used
         THEN /\ th' = [th EXCEPT ![t].taken = _used[key], ![t].key = 0, ![t].pc = "check"]
              /\ UNCHANGED <<_pool, _used, _rused>>
       ELSE IF _pool # <<>>
         THEN LET c == _pool[Len(_pool)] IN
              /\ _pool' = SubSeq(_pool, 1, Len(_pool) - 1)
              /\ _used' = DictSet(_used, key, c)
              /\ _rused' = DictSet(_rused, c, key)
              /\ th' = [th EXCEPT ![t].taken = c, ![t].pc = "check"]
       ELSE IF Cardinality(DOMAIN _used) = pargs.maxconn
         THEN /\ th' = [th EXCEPT ![t] = ThreadRaised("PoolError")]
              /\ UNCHANGED <<_pool, _used, _rused>>
         ELSE /\ th' = [th EXCEPT ![t].key = 0, ![t].pc = "connect"]
              /\ UNCHANGED <<_pool, _used, _rused>>
    /\ UNCHANGED <<pargs, pstate, closed, _keys, _connection_created_at,
                   copen, clock>>
    /\ UNCHANGED notPool

\* psycopg2.connect(...) returns a connection object that did not exist before
ReusedConnection == IF copen = <<>> THEN 1 ELSE Len(copen)
NewConnection == Len(copen) + 1

\* the overriding _connect, called by _getconn for a new connection and by
\* getconn for the replacement of a stale one
PgConnect(t) ==
    /\ th[t].pc = "connect"
    /\ \E o \in ConnectOutcomes(pargs) :
        IF o = "ok"
          THEN LET c == NewConnection IN
               /\ copen' = Append(copen, TRUE)
               /\ _connection_created_at' = DictSet(_connection_created_at, c, clock)
               /\ th' = [th EXCEPT ![t] =
                           IF @.replaced
                             THEN [@ EXCEPT !.conn = c, !.pc = "holding"]
                             ELSE [@ EXCEPT !.taken = c, !.pc = "check"]]
          ELSE /\ th' = [th EXCEPT ![t] = ThreadRaised(o)]
               /\ UNCHANGED <<copen, _connection_created_at>>
    /\ UNCHANGED <<pargs, pstate, closed, _pool, _used, _rused, _keys, clock>>
    /\ UNCHANGED notPool

\* getconn: now = time.time(); created_at = ....get(conn, now); the age test
PgCheckAge(t) ==
    /\ th[t].pc = "check"
    /\ LET now == clock
           created_at == DictGet(_connection_created_at, th[t].taken, now)
       IN th' = [th EXCEPT ![t] =
                   IF Stale(now, created_at, pargs.token_ttl)
                     THEN [@ EXCEPT !.now = now, !.replaced = TRUE, !.pc = "stale"]
                     ELSE [@ EXCEPT !.now = now, !.conn = th[t].taken, !.pc = "holding"]]
    /\ UNCHANGED <<pargs, pstate, closed, _pool, _used, _rused, _keys,
                   _connection_created_at, copen, clock>>
    /\ UNCHANGED notPool

\* getconn: conn.close(); del self._connection_created_at[conn]
PgCloseStale(t) ==
    /\ th[t].pc = "stale"
    /\ copen' = [copen EXCEPT ![th[t].taken] = FALSE]
    /\ _connection_created_at' = DictDel(_connection_created_at, th[t].taken)
    /\ th' = [th EXCEPT ![t].pc = "connect"]
    /\ UNCHANGED <<pargs, pstate, closed, _pool, _used, _rused, _keys, clock>>
    /\ UNCHANGED notPool

\* putconn(conn, close=close): the override's close branch, then _putconn
PgPutconn(t, close) ==
    /\ th[t].pc = "holding"
    /\ LET c == th[t].conn
           open1 == IF close THEN [copen EXCEPT ![c] = FALSE] ELSE copen
       IN
       /\ _connection_created_at' =
              IF close THEN DictDel(_connection_created_at, c)
                       ELSE _connection_created_at
       /\ IF closed \/ c \notin DOMAIN _rused
            THEN /\ th' = [th EXCEPT ![t] = ThreadRaised("PoolError")]
                 /\ copen' = open1
                 /\ UNCHANGED <<_pool, _used, _rused>>
            ELSE LET key == _rused[c]
                     keep == Len(_pool) < pargs.minconn /\ ~close
                 IN
                 /\ _pool' = IF keep /\ open1[c] THEN Append(_pool, c) ELSE _pool
                 /\ copen' = IF keep THEN open1 ELSE [open1 EXCEPT ![c] = FALSE]
                 /\ _used' = DictDel(_used, key)
                 /\ _rused' = DictDel(_rused, c)
                 /\ th' = [th EXCEPT ![t] = ThreadIdle]
    /\ UNCHANGED <<pargs, pstate, closed, _keys, clock>>
    /\ UNCHANGED notPool

\* closeall() -> _closeall: closes the connections of _pool and _used
PgCloseall(t) ==
    /\ pstate = "ready"
    /\ th[t].pc = Idle
    /\ IF closed
         THEN /\ th' = [th EXCEPT ![t] = ThreadRaised("PoolError")]
              /\ UNCHANGED <<closed, copen>>
         ELSE /\ copen' = [c \in DOMAIN copen |->
                             copen[c] /\ c \notin Range(_pool) \cup Range(_used)]
              /\ closed' = TRUE
              /\ th' = [th EXCEPT ![t] = ThreadIdle]
    /\ UNCHANGED <<pargs, pstate, _pool, _used, _rused, _keys,
                   _connection_created_at, clock>>
    /\ UNCHANGED notPool

(***************************************************************************)
(* OracleKerberosPool (oracle_kerberose_pool.py), a cx_Oracle.SessionPool  *)
(* with getmode SPOOL_ATTRVAL_NOWAIT.  acquire(), release(), close() of    *)
(* the pool and close() of a session are the library's; a session here is  *)
(* the handle acquire() returns, a new one on every call.                  *)
(***************************************************************************)
OraBusy == Cardinality({s \in 1..Len(osess) : osess[s].out})

OraRaised(type) == [OraThreadIdle EXCEPT !.err = type]

\* getconn(): session = self.acquire(); the creation time is recorded
OraGetconn(t) ==
    /\ ostate = "ready"
    /\ oth[t].pc = Idle
    /\ Len(osess) < MaxCalls
    /\ IF oclosed \/ OraBusy >= OraclePoolMax
         THEN /\ oth' = [oth EXCEPT ![t] = OraRaised("DatabaseError")]
              /\ UNCHANGED <<osess, ocreated>>
         ELSE LET s == Len(osess) + 1 IN
              /\ osess' = Append(osess, [open |-> TRUE, out |-> TRUE])
              /\ ocreated' = DictSet(ocreated, s, clock)
              /\ oth' = [oth EXCEPT ![t] = [pc |-> "holding", session |-> s,
                                           err |-> "none"]]
    /\ UNCHANGED <<ostate, oclosed>>
    /\ UNCHANGED notOra

\* the session a thread holds loses its connection to the server
OraSessionLost(t) ==
    /\ oth[t].pc = "holding"
    /\ osess[oth[t].session].open
    /\ osess' = [osess EXCEPT ![oth[t].session].open = FALSE]
    /\ UNCHANGED <<ostate, oclosed, ocreated, oth>>
    /\ UNCHANGED notOra

\* putconn(session, close=close).  close: session.close() inside try/except,
\* then the creation time is popped.  Otherwise self.release(session), with
\* nothing around it: releasing a session that is no longer connected raises
OraPutconn(t, close) ==
    /\ oth[t].pc = "holding"
    /\ LET s == oth[t].session IN
       IF close
         THEN /\ osess' = [osess EXCEPT ![s] = [open |-> FALSE, out |-> FALSE]]
              /\ ocreated' = DictDel(ocreated, s)
              /\ oth' = [oth EXCEPT ![t] = OraThreadIdle]
       ELSE IF osess[s].open
         THEN /\ osess' = [osess EXCEPT ![s] = [open |-> FALSE, out |-> FALSE]]
              /\ oth' = [oth EXCEPT ![t] = OraThreadIdle]
              /\ UNCHANGED ocreated
         ELSE /\ oth' = [oth EXCEPT ![t] = OraRaised("DatabaseError")]
              /\ UNCHANGED <<osess, ocreated>>
    /\ UNCHANGED <<ostate, oclosed>>
    /\ UNCHANGED notOra

\* closeall(): super().close(), without force: it fails while sessions are
\* acquired and not released
OraCloseall(t) ==
    /\ ostate = "ready"
    /\ oth[t].pc = Idle
    /\ IF oclosed \/ OraBusy > 0
         THEN /\ oth' = [oth EXCEPT ![t] = OraRaised("DatabaseError")]
              /\ UNCHANGED oclosed
         ELSE /\ oclosed' = TRUE
              /\ oth' = [oth EXCEPT ![t] = OraThreadIdle]
    /\ UNCHANGED <<ostate, osess, ocreated>>
    /\ UNCHANGED notOra

\* the PostgreAuthPool part of the state when the pool under test is Oracle's
PgUnused ==
    /\ pargs = [minconn |-> 0, maxconn |-> 0, token_ttl |-> 0, conninfo |-> "absent"]
    /\ pstate = Idle
    /\ closed = FALSE
    /\ _pool = <<>>
    /\ _used = <<>>
    /\ _rused = <<>>
    /\ _keys = 0
    /\ _connection_created_at = <<>>
    /\ copen = <<>>
    /\ clock = 0
    /\ th = [t \in Threads |-> ThreadIdle]

\* either a PostgreAuthPool about to be constructed, or an OracleKerberosPool
\* just constructed
PoolInit ==
    /\ AllocIdle
    /\ SqlIdle
    /\ WriterIdle
    /\ MergeIdle
    /\ \/ /\ OraIdle
          /\ pargs \in PoolArgs
          /\ pstate = "new"
          /\ closed = FALSE
          /\ _pool = <<>>
          /\ _used = <<>>
          /\ _rused = <<>>
          /\ _keys = 0
          /\ _connection_created_at = <<>>
          /\ copen = <<>>
          /\ clock = 0
          /\ th = [t \in Threads |-> ThreadIdle]
       \/ /\ PgUnused
          /\ ostate = "ready"
          /\ osess = <<>>
          /\ oclosed = FALSE
          /\ ocreated = <<>>
          /\ oth = [t \in Threads |-> OraThreadIdle]

PoolNext ==
    \/ PgInit
    \/ Tick
    \/ \E t \in Threads : PgGetconn(t)
    \/ \E t \in Threads : PgGetkey(t)
    \/ \E t \in Threads : PgBaseGetconn(t)
    \/ \E t \in Threads : PgConnect(t)
    \/ \E t \in Threads : PgCheckAge(t)
    \/ \E t \in Threads : PgCloseStale(t)
    \/ \E t \in Threads, close \in BOOLEAN : PgPutconn(t, close)
    \/ \E t \in Threads : PgCloseall(t)
    \/ \E t \in Threads : OraGetconn(t)
    \/ \E t \in Threads : OraSessionLost(t)
    \/ \E t \in Threads, close \in BOOLEAN : OraPutconn(t, close)
    \/ \E t \in Threads : OraCloseall(t)

SpecPool == PoolInit /\ [][PoolNext]_vars

(***************************************************************************)
(* Claims about PostgreAuthPool                                            *)
(***************************************************************************)
\* the threads to which connection c is checked out: it was taken from the
\* base pool by a getconn still running, or it has been returned to the caller
Holders(c) ==
    {t \in Threads :
        \/ th[t].pc \in {"check", "stale"} /\ th[t].taken = c
        \/ th[t].pc = "holding" /\ th[t].conn = c}

Connections == 1..Len(copen)
InIdleSet(c) == c \in Range(_pool)

\* C9: a connection getconn() has returned has age now - created_at of at
\* most token_ttl, now being the time getconn read; when the connection
\* taken from the base pool was older than token_ttl, that connection is
\* closed, its creation time is no longer recorded, and the connection
\* returned is another one, created during this call; otherwise the
\* connection taken is the one returned.
C9_ReturnedWithinTtl ==
    \A t \in Threads :
        th[t].pc = "holding" =>
            LET c == th[t].conn IN
            /\ c \in DOMAIN _connection_created_at
            /\ th[t].now - _connection_created_at[c] <= pargs.token_ttl
            /\ IF th[t].replaced
                 THEN /\ c # th[t].taken
                      /\ ~copen[th[t].taken]
                      /\ th[t].taken \notin DOMAIN _connection_created_at
                      /\ _connection_created_at[c] >= th[t].now
                 ELSE c = th[t].taken

\* a thread holds the replacement of a connection getconn found stale
C9_Witness ==
    \E t \in Threads :
        /\ th[t].pc = "holding"
        /\ th[t].replaced
        /\ th[t].conn # th[t].taken
        /\ copen[th[t].conn]

\* a thread holds the connection it took, whose age is positive and within
\* token_ttl
C9_WitnessAsIs ==
    \E t \in Threads :
        /\ th[t].pc = "holding"
        /\ ~th[t].replaced
        /\ th[t].now - _connection_created_at[th[t].conn] = pargs.token_ttl
        /\ pargs.token_ttl > 0

\* a connection is never checked out to two threads at once
NoDoubleIssue == \A c \in Connections : Cardinality(Holders(c)) <= 1

\* every open connection is either in the idle set or checked out to one
\* thread
NoConnectionLost ==
    \A c \in Connections :
        copen[c] => (InIdleSet(c) /\ Holders(c) = {})
                    \/ (~InIdleSet(c) /\ Cardinality(Holders(c)) = 1)

\* C10: under every interleaving of getconn and putconn by the threads no
\* connection is checked out to two callers at once, and no connection is
\* lost: each is idle, checked out to exactly one caller, or closed.
C10_NoDoubleIssueNoLoss == NoDoubleIssue /\ NoConnectionLost

\* connections that are open, and connections some thread has in hand
OpenConnections == {c \in Connections : copen[c]}
CheckedOut == {c \in Connections : Holders(c) # {}}

\* C11: the pool never has more than maxconn physical connections open,
\* counting the idle ones, the checked-out ones, the ones made at
\* construction and the replacements of stale ones; in particular never more
\* than maxconn are checked out, a further getconn() being refused.
C11_OpenAtMostMaxconn ==
    /\ Cardinality(OpenConnections) <= pargs.maxconn
    /\ Cardinality(CheckedOut) <= pargs.maxconn

\* thread t takes the step that ends its _connect call
ConnectStep(t) == th[t].pc = "connect" /\ th'[t] # th[t]

\* the errors of credential minting and of the handshake
AuthErrors == {"TokenError", "OperationalError"}

\* C12: a _connect that fails during getconn(), for a new connection or for
\* the replacement of a stale one, ends the call at once with that error:
\* no connection is opened, none is handed to the caller and _connect is not
\* tried again; a connection getconn() has returned is open and has its
\* creation time recorded.
C12_FailedConnectRaises ==
    /\ [](\A t \in Threads :
            th[t].pc = "holding" =>
                /\ th[t].conn \in Connections
                /\ copen[th[t].conn]
                /\ th[t].conn \in DOMAIN _connection_created_at)
    /\ [][\A t \in Threads :
            ConnectStep(t) =>
                \/ /\ Len(copen') = Len(copen) + 1
                   /\ copen'[Len(copen')]
                   /\ th'[t].pc \in {"check", "holding"}
                   /\ th'[t].err = "none"
                \/ /\ copen' = copen
                   /\ _connection_created_at' = _connection_created_at
                   /\ th'[t].pc = Idle
                   /\ th'[t].conn = 0
                   /\ th'[t].err \in ConnectErrors(pargs)]_vars

\* the only getconn() so far found its connection stale, closed it, and the
\* _connect for the replacement failed: the caller got the error
C12_Witness ==
    \E t \in Threads :
        /\ th[t].pc = Idle
        /\ th[t].err \in AuthErrors
        /\ _keys = 1
        /\ \E c \in Connections : ~copen[c] /\ c > pargs.minconn

\* the _connect for a new connection failed
C12_WitnessNew ==
    \E t \in Threads :
        /\ th[t].pc = Idle
        /\ th[t].err \in AuthErrors
        /\ Len(copen) = pargs.minconn

\* thread t takes the step putconn(conn, close=False) on a pool that is not
\* closed: it gives up the connection and the creation time stays recorded
ReleaseStep(t) ==
    /\ th[t].pc = "holding"
    /\ th'[t].pc # "holding"
    /\ ~closed
    /\ th[t].conn \in DOMAIN _connection_created_at'

\* C13: putconn(conn) of a connection getconn() returned, a replacement
\* included, raises nothing and puts the connection into the idle set,
\* whatever its age, so that a later getconn() can hand it out.
C13_ReleaseReturnsToIdle ==
    [][\A t \in Threads :
        ReleaseStep(t) =>
            /\ th'[t].err = "none"
            /\ th[t].conn \in Range(_pool')
            /\ copen'[th[t].conn]]_vars

(***************************************************************************)
(* Claims about putconn and closeall of both pools                         *)
(***************************************************************************)
\* C14: putconn(conn, close=True) leaves the connection closed, with no
\* creation time recorded and outside the idle set, for PostgreAuthPool and
\* for OracleKerberosPool alike; an error of the close itself is swallowed
\* (the Oracle call raises nothing even for a session already lost); and a
\* connection that is closed is never again in the hands of a caller.
C14_ClosedOnRelease ==
    /\ [](\A c \in Connections :
            ~copen[c] => /\ c \notin Range(_pool)
                         /\ c \notin DOMAIN _connection_created_at
                         /\ \A t \in Threads : ~(th[t].pc = "holding" /\ th[t].conn = c))
    /\ [](\A s \in 1..Len(osess) :
            ~osess[s].out => \A t \in Threads : oth[t].session # s)
    /\ [][\A t \in Threads :
            PgPutconn(t, TRUE) =>
                /\ ~copen'[th[t].conn]
                /\ th[t].conn \notin DOMAIN _connection_created_at'
                /\ th[t].conn \notin Range(_pool')]_vars
    /\ [][\A t \in Threads :
            OraPutconn(t, TRUE) =>
                /\ ~osess'[oth[t].session].open
                /\ ~osess'[oth[t].session].out
                /\ oth[t].session \notin DOMAIN ocreated'
                /\ oth'[t].err = "none"]_vars

\* the one connection getconn() made was given back with close=True
C14_Witness ==
    \E t \in Threads :
        /\ th[t].pc = Idle /\ th[t].err = "PoolError"
        /\ ~closed /\ _keys = 1
        /\ Len(copen) = pargs.minconn + 1
        /\ ~copen[Len(copen)]
        /\ Len(copen) \notin DOMAIN _connection_created_at

\* an Oracle session was given back with close=True
C14_WitnessOracle ==
    \E s \in 1..Len(osess) :
        /\ ~osess[s].out
        /\ s \notin DOMAIN ocreated
        /\ \A t \in Threads : oth[t].err = "none"

(***************************************************************************)
(* Claims about the writer's cleanup and its dispatch                      *)
(***************************************************************************)
\* a statement of the call has failed
ChunkFailed == \E j \in 1..Len(wlog) : wlog[j].op = "failed"

\* C15: giving the connection back never raises to the caller: no call of
\* the writer ends with an error of putconn, and a call in which a chunk
\* failed ends with that chunk's error.
C15_ReleaseNeverRaises ==
    /\ w.err.at # "putconn"
    /\ (w.pc = "raised" /\ ChunkFailed) => w.err.at = "executemany"

\* C16: once closeall() has closed the pool, no connection the pool created
\* is open, whether it was idle, checked out or a replacement, and the
\* creation-time map of the pool is empty; for both pools.
C16_CloseallLeavesNothing ==
    /\ closed => /\ OpenConnections = {}
                 /\ DOMAIN _connection_created_at = {}
    /\ oclosed => /\ \A s \in 1..Len(osess) : ~osess[s].open
                  /\ DOMAIN ocreated = {}

(***************************************************************************)
(* PostgresDBWriter, postgres_writer.py: the single-statement upsert.      *)
(***************************************************************************)
\* _merge_batch 132-133 and 144-159: the pieces of the MERGE statement.  A
\* merge_on given as one string becomes the one-element list
SetParts(df_cols, merge_on) == SelectSeq(df_cols, LAMBDA c : ~InList(c, merge_on))

BuildMergeSql(df_cols, merge_on) ==
    [on |-> merge_on, set |-> SetParts(df_cols, merge_on), insert |-> df_cols]

\* _merge_batch 199-202: the rows' cells, one after the other
RECURSIVE FlatData(_)
FlatData(data) == IF data = <<>> THEN <<>> ELSE Head(data) \o FlatData(Tail(data))

\* the server's VALUES rows: the parameters, taken len(df_cols) at a time
SourceRows(flat_data, ncols, nrows) ==
    [i \in 1..nrows |-> SubSeq(flat_data, (i - 1) * ncols + 1, i * ncols)]

\* SQL's "=": a NULL on either side never compares equal
SqlEq(a, b) == a # NoneVal /\ b # NoneVal /\ a = b

\* ON t.k = s.k AND ...
OnMatches(sql, trow, srow) ==
    \A i \in 1..Len(sql.on) : SqlEq(trow[sql.on[i]], ValueOf(srow, sql.insert, sql.on[i]))

\* the server accepts the statement: every column it names exists, UPDATE SET
\* is followed by an assignment, and no target row is matched by two source rows
MergeRunnable(table, sql, source) ==
    /\ Len(sql.insert) >= 1
    /\ \A i \in 1..Len(sql.insert) : sql.insert[i] \in TableCols
    /\ \A i \in 1..Len(sql.on) : InList(sql.on[i], sql.insert)
    /\ Len(sql.set) >= 1
    /\ \A j \in 1..Len(table) : \A a, b \in 1..Len(source) :
          OnMatches(sql, table[j], source[a]) /\ OnMatches(sql, table[j], source[b])
             => a = b

\* WHEN MATCHED THEN UPDATE SET ...  WHEN NOT MATCHED THEN INSERT (...) VALUES (...)
MergeInto(table, sql, source) ==
    LET matched(j) == {a \in 1..Len(source) : OnMatches(sql, table[j], source[a])}
        updated == [j \in 1..Len(table) |->
                      IF matched(j) = {} THEN table[j]
                      ELSE LET srow == source[CHOOSE a \in matched(j) : TRUE]
                           IN [c \in TableCols |->
                                 IF InList(c, sql.set) THEN ValueOf(srow, sql.insert, c)
                                 ELSE table[j][c]]]
        unmatched == SelectSeq(source, LAMBDA srow :
                        \A j \in 1..Len(table) : ~OnMatches(sql, table[j], srow))
        inserted == [a \in 1..Len(unmatched) |->
                       [c \in TableCols |->
                          IF InList(c, sql.insert) THEN ValueOf(unmatched[a], sql.insert, c)
                          ELSE NoneVal]]
    IN updated \o inserted

MergeOnArgs == {<<"ID">>, <<"PK1">>, <<"PK1", "PK2">>}

\* a batch whose first cell is None
NullFirstCell(rows) ==
    [i \in 1..Len(rows) |-> IF i = 1 THEN [rows[i] EXCEPT ![1] = NoneVal] ELSE rows[i]]

MergeRaised(type, at) == [mw EXCEPT !.pc = "raised", !.err = [type |-> type, at |-> at]]

\* writer.write_as_dataframe(df, merge_on=..., chunk_size=...): merge_on
\* defaults to "id_rec" and chunk_size to None
CallMerge ==
    /\ mw.pc = Idle
    /\ \E cols \in DfColumnLists, n \in 0..MaxRows, s \in {0, 1}, nulls \in BOOLEAN,
          keys \in SUBSET {"merge_on", "chunk_size"}, on \in MergeOnArgs,
          c \in 0..MaxChunk :
          /\ nulls => n >= 1
          /\ mw' = [mw EXCEPT !.pc = "write_as_dataframe", !.keys = keys,
                       !.merge_on = IF "merge_on" \in keys THEN on ELSE <<"id_rec">>,
                       !.chunk_size = IF "chunk_size" \in keys THEN c ELSE NoneVal,
                       !.cols = cols,
                       !.rows = IF nulls THEN NullFirstCell(Batch(cols, n, s))
                                ELSE Batch(cols, n, s)]
    /\ UNCHANGED <<mtxn, mtarget, mtarget0, mlog>>
    /\ UNCHANGED notMerge

\* the same call made a second time once the first has returned
CallMergeAgain ==
    /\ mw.pc = "returned"
    /\ mw.round = 1
    /\ mw' = [mw EXCEPT !.pc = "write_as_dataframe", !.round = 2, !.start = 0]
    /\ mtarget0' = mtarget
    /\ mlog' = <<>>
    /\ UNCHANGED <<mtxn, mtarget>>
    /\ UNCHANGED notMerge

\* write_as_dataframe 89-97
MergeWrite ==
    /\ mw.pc = "write_as_dataframe"
    /\ mw' = IF DfEmpty(mw.cols, mw.rows) THEN [mw EXCEPT !.pc = "returned"]
             ELSE [mw EXCEPT !.pc = "connect"]
    /\ UNCHANGED <<mtxn, mtarget, mtarget0, mlog>>
    /\ UNCHANGED notMerge

\* connect 32-78, called outside the try: the name IAMAuthSimpleConnectionPool
\* is bound nowhere; SimpleConnectionPool opens minconn connections.
\* getconn() keeps the connection in the pool's used set (busy) until putconn
MergeConnect ==
    /\ mw.pc = "connect"
    /\ IF mw.pool = "None" /\ mw.iam_auth
       THEN mw' = MergeRaised("NameError", "connect")
       ELSE \E outcome \in {"ok", "OperationalError"} :
               /\ outcome # "ok" => mw.pool = "None"
               /\ mw' = IF outcome = "ok"
                        THEN [mw EXCEPT !.pc = "loop", !.pool = "pool",
                                        !.conn = TRUE, !.busy = @ + 1,
                                        !.closed = FALSE, !.start = 0]
                        ELSE MergeRaised(outcome, "connect")
    /\ mtxn' = mtarget
    /\ UNCHANGED <<mtarget, mtarget0, mlog>>
    /\ UNCHANGED notMerge

\* write_as_dataframe 102-114: end of the subset that starts at start; one
\* subset holding the whole frame unless chunk_size is a positive number
MergeEnd ==
    IF mw.chunk_size # NoneVal /\ mw.chunk_size > 0
    THEN Min(mw.start + mw.chunk_size, Len(mw.rows))
    ELSE Len(mw.rows)

MergeSubset == SubSeq(mw.rows, mw.start + 1, MergeEnd)

MergeSource == SourceRows(FlatData(MergeSubset), Len(mw.cols), Len(MergeSubset))

\* self._merge_batch(cur, subset, merge_on) succeeds; start = end
MergeBatch ==
    /\ mw.pc = "loop"
    /\ mw.start < Len(mw.rows)
    /\ LET sql == BuildMergeSql(mw.cols, mw.merge_on)
       IN /\ MergeRunnable(mtxn, sql, MergeSource)
          /\ mtxn' = MergeInto(mtxn, sql, MergeSource)
    /\ mlog' = Append(mlog, Event("execute", MergeSubset))
    /\ mw' = [mw EXCEPT !.start = MergeEnd]
    /\ UNCHANGED <<mtarget, mtarget0>>
    /\ UNCHANGED notMerge

\* cur.execute raises: the server rejects the statement, or the statement is
\* lost with the connection (conn.closed is then set, or not, by the driver);
\* nothing of it is applied
MergeBatchFails ==
    /\ mw.pc = "loop"
    /\ mw.start < Len(mw.rows)
    /\ \E type \in {"ProgrammingError", "OperationalError"}, gone \in BOOLEAN :
          /\ type = "ProgrammingError"
                <=> ~MergeRunnable(mtxn, BuildMergeSql(mw.cols, mw.merge_on), MergeSource)
          /\ gone => type = "OperationalError"
          /\ mw' = [mw EXCEPT !.pc = "except", !.closed = gone,
                              !.err = [type |-> type, at |-> "execute"]]
    /\ mlog' = Append(mlog, Event("failed", MergeSubset))
    /\ UNCHANGED <<mtxn, mtarget, mtarget0>>
    /\ UNCHANGED notMerge

\* 116, 123-126: the one conn.commit() after the last subset; finally putconn
MergeCommit ==
    /\ mw.pc = "loop"
    /\ ~(mw.start < Len(mw.rows))
    /\ mtarget' = mtxn
    /\ mlog' = Append(mlog, Event("commit", <<>>))
    /\ mw' = [mw EXCEPT !.pc = "returned", !.conn = FALSE, !.busy = @ - 1]
    /\ UNCHANGED <<mtxn, mtarget0>>
    /\ UNCHANGED notMerge

\* 118-126: conn.rollback() and, in the finally, putconn(conn), each only
\* "if conn and not conn.closed"; raise.  The transaction of a closed
\* connection is gone with it
MergeExcept ==
    /\ mw.pc = "except"
    /\ mtxn' = mtarget
    /\ mlog' = IF mw.closed THEN mlog ELSE Append(mlog, Event("rollback", <<>>))
    /\ mw' = IF mw.closed THEN [mw EXCEPT !.pc = "raised", !.conn = FALSE]
             ELSE [mw EXCEPT !.pc = "raised", !.conn = FALSE, !.busy = @ - 1]
    /\ UNCHANGED <<mtarget, mtarget0>>
    /\ UNCHANGED notMerge

MergeInit ==
    /\ AllocIdle
    /\ SqlIdle
    /\ WriterIdle
    /\ PoolIdle
    /\ mw \in {[NoMergeCall EXCEPT !.iam_auth = b] : b \in BOOLEAN}
    /\ mtarget = InitialTarget
    /\ mtarget0 = mtarget
    /\ mtxn = mtarget
    /\ mlog = <<>>

MergeNext ==
    \/ CallMerge \/ CallMergeAgain \/ MergeWrite \/ MergeConnect
    \/ MergeBatch \/ MergeBatchFails \/ MergeCommit \/ MergeExcept

SpecMerge == MergeInit /\ [][MergeNext]_vars

(***************************************************************************)
(* Claims about the MERGE writer.                                          *)
(***************************************************************************)
\* the table after the MERGE statements of the log's first n events
RECURSIVE AfterMerges(_, _, _)
AfterMerges(table, log, n) ==
    IF n = 0 THEN table
    ELSE LET before == AfterMerges(table, log, n - 1)
         IN IF log[n].op = "execute"
            THEN MergeInto(before, BuildMergeSql(mw.cols, mw.merge_on),
                           SourceRows(FlatData(log[n].tuples), Len(mw.cols),
                                      Len(log[n].tuples)))
            ELSE before

MergeChunked == mw.chunk_size # NoneVal /\ mw.chunk_size >= 1

\* C17: with chunk_size >= 1 every chunk's MERGE is committed before the next
\* chunk's MERGE is executed, and when the MERGE of chunk k fails the target
\* holds the rows of the chunks before k as their MERGE statements left them
C17_MergeChunkCommittedBeforeNext ==
    MergeChunked =>
       /\ \A j \in 2..Len(mlog) :
             mlog[j].op \in {"execute", "failed"} => mlog[j - 1].op = "commit"
       /\ mw.pc = "raised" /\ mw.err.at = "execute"
             => mtarget = AfterMerges(mtarget0, mlog, Len(mlog))

\* every merge_on column is a column of the batch
KeysInBatch == \A i \in 1..Len(mw.merge_on) : InList(mw.merge_on[i], mw.cols)

\* the batch row's value in column c
Cell(brow, c) == ValueOf(brow, mw.cols, c)

SameKey(a, b) == \A i \in 1..Len(mw.merge_on) : a[mw.merge_on[i]] = b[mw.merge_on[i]]

\* the batch row as a record over its own columns
AsRecord(brow) == [c \in Range(mw.cols) |-> Cell(brow, c)]

DistinctKeys(chunk) ==
    \A a, b \in 1..Len(chunk) :
       a # b => ~SameKey(AsRecord(chunk[a]), AsRecord(chunk[b]))

\* new is old with the chunk upserted by key
Upserted(old, new, chunk) ==
    LET hits(j) == {a \in 1..Len(chunk) : SameKey(old[j], AsRecord(chunk[a]))}
        fresh == SelectSeq(chunk, LAMBDA brow :
                    \A j \in 1..Len(old) : ~SameKey(old[j], AsRecord(brow)))
    IN /\ Len(new) = Len(old) + Len(fresh)
       /\ \A j \in 1..Len(old) :
             IF hits(j) = {} THEN new[j] = old[j]
             ELSE \A a \in hits(j) : \A c \in TableCols :
                     new[j][c] = IF InList(c, mw.cols) /\ ~InList(c, mw.merge_on)
                                 THEN Cell(chunk[a], c) ELSE old[j][c]
       /\ \A a \in 1..Len(fresh) : \A c \in Range(mw.cols) :
             new[Len(old) + a][c] = Cell(fresh[a], c)

\* the step in which the server is given one chunk's MERGE and answers
MergeStep ==
    /\ mw.pc = "loop"
    /\ mw.start < Len(mw.rows)
    /\ mw'.err.type # "OperationalError"

\* C18: a chunk whose rows have distinct key values is upserted by key: matched
\* target rows take the chunk row's non-key columns and keep their key,
\* unmatched chunk rows are inserted whole, other target rows are unchanged;
\* and the same batch written a second time leaves the target as it was after
\* the first time
C18_MergeUpsertsByKey ==
    /\ [][MergeStep /\ KeysInBatch /\ DistinctKeys(MergeSubset)
             => Upserted(mtxn, mtxn', MergeSubset)]_vars
    /\ [](/\ mw.round = 2
          /\ mw.pc = "returned"
          /\ KeysInBatch
          /\ \A j \in 1..Len(mlog) : DistinctKeys(mlog[j].tuples)
          => mtarget = mtarget0)

(***************************************************************************)
(* Claims about the Oracle writer's argument checks.                       *)
(***************************************************************************)
\* write_as_dataframe was called with no mode, or with one that is neither
\* insert nor update
InvalidModeCall ==
    /\ w.entry = "write_as_dataframe"
    /\ w.args.mode \notin {"insert", "update"}

NoSideEffects ==
    /\ ~w.conn
    /\ w.busy = 0
    /\ w.body = "none"
    /\ wlog = <<>>
    /\ seqTable = seqInit
    /\ wtxn = target0
    /\ target = target0

\* C19: write_as_dataframe called with mode absent or not one of insert /
\* update goes nowhere but to its failure, the error its check of mode raises,
\* and on the way takes no connection, executes no statement, changes no
\* sequence threshold and leaves the target table as it was
C19_InvalidModeFailsFast ==
    InvalidModeCall =>
       /\ w.pc \in {"write_as_dataframe", "raised"}
       /\ w.pc = "raised"
             => w.err = [type |-> "AssertionError", at |-> "write_as_dataframe"]
       /\ NoSideEffects

\* an unknown mode was refused, with a batch that has rows
C19_Witness ==
    /\ InvalidModeCall
    /\ w.pc = "raised"
    /\ w.args.mode = "merge"
    /\ Len(w.rows) >= 1

\* the call without any mode was refused
C19_WitnessAbsent ==
    /\ InvalidModeCall
    /\ w.pc = "raised"
    /\ "mode" \notin w.keys

\* an update, called directly or through write_as_dataframe
UpdateCall ==
    \/ w.entry = "update_data"
    \/ w.entry = "write_as_dataframe" /\ w.args.mode = "update"

\* pk_cols is missing or empty, or names a column the batch does not have
KeyColumnsMissing ==
    \/ w.args.pk_cols = <<>>
    \/ \E j \in 1..Len(w.args.pk_cols) : ~InList(w.args.pk_cols[j], w.df0.cols)

\* C20: an update whose pk_cols is missing, empty or names a column that the
\* batch lacks does no I/O and ends in the error that reports the key
\* columns, whatever the batch, an empty one included
C20_MissingKeysFailBeforeIo ==
    UpdateCall /\ KeyColumnsMissing =>
       /\ ~w.conn /\ w.busy = 0 /\ wlog = <<>> /\ target = target0
       /\ Finished => w.pc = "raised" /\ w.err.type = "ValueError"

\* an insert, called directly or through write_as_dataframe, that names a
\* sequence and no pk column
SequenceWithoutPkCol ==
    /\ \/ w.entry = "insert_data"
       \/ w.entry = "write_as_dataframe" /\ w.args.mode = "insert"
    /\ Truthy(w.args.sequence_name)
    /\ ~Truthy(w.args.pk_col)

\* C21: an insert given a sequence name and no pk column takes no connection,
\* allocates no id, inserts no row and ends in the error that reports the
\* missing pk column, whatever the batch, an empty one included
C21_SequenceNeedsPkCol ==
    SequenceWithoutPkCol =>
       /\ ~w.conn /\ w.busy = 0 /\ wlog = <<>>
       /\ seqTable = seqInit /\ target = target0
       /\ Finished => w.pc = "raised" /\ w.err.type = "ValueError"

\* an insert that asks for ids of a sequence_name with no row in SEQUENCES
UnknownEntityFill ==
    /\ SequenceFill
    /\ ~DfEmpty(w.df0.cols, w.df0.rows)
    /\ ~seqInit[w.args.sequence_name].exists

Replacing(c) ==
    {t \in Threads : th[t].replaced /\ th[t].taken = c
                     /\ th[t].pc \in {"stale", "connect"}}

\* C23: under every interleaving of getconn and putconn calls a connection
\* found stale is closed by one thread only, at a moment when it is still
\* open and still has its entry in _connection_created_at, the entry is
\* removed by that step, and the thread creates one replacement that no
\* other thread holds
C23_StaleReplacedOnce ==
    /\ [](\A c \in Connections : Cardinality(Replacing(c)) <= 1)
    /\ [][\A t \in Threads : PgCloseStale(t) =>
             /\ copen[th[t].taken]
             /\ th[t].taken \in DOMAIN _connection_created_at
             /\ ~copen'[th[t].taken]
             /\ th[t].taken \notin DOMAIN _connection_created_at']_vars
    /\ [][\A t \in Threads :
             (th[t].pc = "connect" /\ th[t].replaced /\ th'[t].pc = "holding") =>
                /\ Len(copen') = Len(copen) + 1
                /\ th'[t].conn = Len(copen')
                /\ \A u \in Threads \ {t} :
                      th'[u].conn # th'[t].conn /\ th'[u].taken # th'[t].conn]_vars

\* two threads are replacing stale connections at the same time
C23_Witness ==
    \E t, u \in Threads :
        /\ t # u
        /\ th[t].pc = "stale"
        /\ th[u].replaced /\ th[u].pc \in {"stale", "connect"}
        /\ th[t].taken # th[u].taken

\* both replacements were made and are held
C23_WitnessBoth ==
    \E t, u \in Threads :
        /\ t # u
        /\ th[t].pc = "holding" /\ th[t].replaced
        /\ th[u].pc = "holding" /\ th[u].replaced
        /\ th[t].conn # th[u].conn

(***************************************************************************)
(* Further claims about the allocator.                                     *)
(***************************************************************************)
\* the callers other than p that have asked for ids of p's entity
SharersOf(p) == {q \in Procs \ {p} : apc[q] # Idle /\ aent[q] = aent[p]}

\* C24: a caller at its locking read of an entity whose row is not locked can
\* take that step whatever locks are held on other entities, and a caller
\* alone on its entity gets oldThreshold+1 .. oldThreshold+b and stores
\* oldThreshold+b whatever the other entities' callers did before or after
C24_EntitiesIndependent ==
    \A p \in Procs :
        /\ (apc[p] = "select" /\ seqTable[aent[p]].exists /\ rowLock[aent[p]] = 0)
              => ENABLED AllocSelect(p)
        /\ (apc[p] = "returned" /\ SharersOf(p) = {})
              => /\ aresult[p] = [i \in 1..ablock[p] |-> InitialThreshold(aent[p]) + i]
                 /\ seqTable[aent[p]] = Num(InitialThreshold(aent[p]) + ablock[p])

\* two callers hold the row locks of two entities at the same time
C24_Witness ==
    \E p, q \in Procs :
        /\ aent[p] # aent[q]
        /\ rowLock[aent[p]] = p /\ apc[p] \in {"update", "commit"}
        /\ rowLock[aent[q]] = q /\ apc[q] = "commit"

\* one caller has returned while the other still held the lock of another entity
C24_WitnessOvertaken ==
    \E p, q \in Procs :
        /\ aent[p] # aent[q]
        /\ rowLock[aent[p]] = p
        /\ apc[q] = "returned" /\ ablock[q] >= 1

(***************************************************************************)
(* Claims about the allocation inside an insert.                           *)
(***************************************************************************)
\* the stored threshold of an entity, a NULL or a missing row counting as 0
StoredThreshold(table, e) == IF table[e].exists /\ ~table[e].null THEN table[e].val ELSE 0

\* C25: no step of an insert lowers an entity's stored threshold; when the
\* first INSERT statement is executed the allocation is already committed;
\* and the ids the call was given stay above the threshold it started from
\* and at or below the stored one, after a failed and rolled back chunk too,
\* so that an allocation made later starts above every one of them
C25_AllocationCommittedFirst ==
    /\ [][\A e \in Entities :
             /\ StoredThreshold(seqTable', e) >= StoredThreshold(seqTable, e)
             /\ seqTable[e].exists => seqTable'[e].exists]_vars
    /\ [](SequenceFill =>
            LET sq == w.args.sequence_name IN
            /\ wlog # <<>> =>
                  /\ seqTable[sq] = Num(InitialThreshold(sq) + Len(w.df0.rows))
                  /\ Len(w.ids) = Len(w.df0.rows)
            /\ \A i \in 1..Len(w.ids) :
                  /\ w.ids[i] > InitialThreshold(sq)
                  /\ w.ids[i] <= StoredThreshold(seqTable, sq))

\* the second chunk of an insert with allocated ids failed and was rolled
\* back: its ids are spent and the threshold stays where the allocation put it
C25_Witness ==
    /\ SequenceFill
    /\ w.pc = "raised" /\ w.err.at = "executemany"
    /\ Len(wlog) >= 4
    /\ Len(target) < Len(target0) + Len(w.ids)
    /\ seqTable[w.args.sequence_name]
          = Num(InitialThreshold(w.args.sequence_name) + Len(w.ids))

AllocDone(p) == apc[p] \in {"returned", "ValueError", "DatabaseError"}

\* C27: every caller that has entered the allocator, waiting at the locking
\* read or holding the row lock, gets to the point where its connection is
\* put back, and a row lock is held only by a caller between its locking
\* read and its commit or the rollback of its failed UPDATE or commit: every
\* lock taken is released, every waiting caller proceeds, and no lock is
\* held by a caller that has put its connection back
C27_RowLockReleased ==
    /\ \A p \in Procs : (apc[p] # Idle) ~> AllocDone(p)
    /\ [](\A p \in Procs : \A e \in Entities :
            rowLock[e] = p => apc[p] \in {"update", "commit", "finally"})

\* a caller waits at the locking read for a row whose holder's UPDATE failed
C27_Witness ==
    \E p, q \in Procs :
        /\ p # q /\ aent[p] = aent[q]
        /\ apc[p] = "finally" /\ rowLock[aent[p]] = p
        /\ apc[q] = "select"

\* the failed caller has put its connection back and the waiting one holds the lock
C27_WitnessProceeds ==
    \E p, q \in Procs :
        /\ p # q /\ aent[p] = aent[q]
        /\ apc[p] = "DatabaseError"
        /\ rowLock[aent[q]] = q
(***************************************************************************)
(* Claims about the connections a call holds.                              *)
(***************************************************************************)
MergeFinished == mw.pc \in {"returned", "raised"}

\* C28: when a call of the Oracle writer or of the MERGE writer has returned
\* or raised, no connection it took from the pool is still checked out: the
\* number of checked-out connections is what it was before the call
C28_ConnectionsGivenBack ==
    /\ Finished => w.busy = 0
    /\ MergeFinished => mw.busy = 0

\* C29: an insert that allocates its ids never has two sessions out of the
\* pool: the session of the allocation is back in the pool when the one for
\* the INSERT chunks is asked for, so with no other caller neither connect()
\* of the call finds the pool exhausted
C29_OneConnectionAtATime ==
    SequenceFill =>
        /\ w.busy <= 1
        /\ w.conn => w.busy = 1
        /\ w.pc \in {"fill", "connect"} => ~w.conn /\ w.busy = 0
        /\ ~(w.pc = "raised" /\ w.err = [type |-> "DatabaseError", at |-> "connect"])

\* a call that allocated ids through one session has committed a chunk
\* through the next one and returned
C29_Witness ==
    /\ SequenceFill /\ w.pc = "returned" /\ w.pool = "pool"
    /\ w.ids # <<>>
    /\ \E i \in 1..Len(wlog) : wlog[i].op = "commit"
    /\ w.busy = 0

(***************************************************************************)
(* Claims about the chunk loop.                                            *)
(***************************************************************************)
\* C30: whatever integer chunk_size is, every iteration of the chunk loop of
\* insert_data and update_data moves start_idx forward, so the loop reaches
\* the end of the batch
C30_ChunkLoopAdvances ==
    [][w.pc = "commit" /\ w'.pc = "loop" => w'.start > w.start]_vars

====
